---- MODULE Spec2Model ----
(***************************************************************************)
(* Model of the hybrid graph retrieval pipeline of src/graph_retriever.py  *)
(* (class GraphRetriever).  Python strings are sequences of characters, so *)
(* that splitting, stripping, lower-casing, substring tests and            *)
(* concatenation are computed as the code computes them.                   *)
(***************************************************************************)
EXTENDS Integers, Sequences, FiniteSets, TLC

VARIABLES
    graph,              \* relationships held by the graph store (self.kg)
    corpus,             \* contents of the chunks held by the vector index
    pc,                 \* position of the call in progress
    entry,              \* the public method the caller invoked
    input_text,         \* argument of generate_full_text_query
    question,           \* argument of the retrieval methods
    entities,           \* entities.names, as returned by the entity chain
    idx,                \* number of entities the loop of line 79 has handled
    node_hits,          \* nodes yielded by the last full-text search
    result,             \* accumulator of structured_retriever
    pattern_idx,        \* role_patterns examined so far by the scanner loop
    docs,               \* chunks returned by the scanner's last search
    role_context,       \* accumulator of find_role_mentions_in_context
    structured_data,    \* retrieve: value returned by structured_retriever
    base_docs,          \* retrieve: result of the base similarity search
    role_docs,          \* retrieve: result of the boost similarity search
    unstructured_data,  \* retrieve: selected chunk contents
    ret,                \* <<v>> once the entry method has returned v
    error,              \* exception that left the entry method, or "none"
    calls,              \* calls issued to the collaborators, in order
    attributes,         \* the attributes of the retriever object (self)
    graph_index_marker, \* the file .graph_index_built exists
    kg_nodes,           \* nodes and relationships of the documents held by
                        \* Neo4j: "none", "some" or "all"
    kg_unembedded,      \* a stored Document node has no embedding yet
    kg_vector_index,    \* the vector index on the Document nodes exists
    kg_fulltext_index,  \* the full-text index entity exists
    build_pc,           \* position of the build_graph_index run in progress
    force_rebuild,      \* argument of the build_graph_index run
    build_ret,          \* value returned by the last build_graph_index run
    faiss_index_exists, \* the path faiss_index exists
    vector_store,       \* FAISSIndexer.vector_store: "None" or "store"
    faiss_retriever,    \* RAGComparison.faiss_retriever: "unset" or what it wraps
    graph_retriever,    \* RAGComparison.graph_retriever: "unset" or the graph
                        \* index it was connected to
    setup_error,        \* exception that left the last setup or query
    setup_pc,           \* position of the setup call in progress
    faiss_files,        \* index.faiss and index.pkl are written in faiss_index
    faiss_pc,           \* position of the build_faiss_index run in progress
    faiss_ret           \* value returned by the last build_faiss_index run

retrieval_vars == <<graph, corpus, pc, entry, input_text, question, entities, idx,
                    node_hits, result, pattern_idx, docs, role_context, structured_data,
                    base_docs, role_docs, unstructured_data, ret, error, calls,
                    attributes>>

\* state of build_graph_index, of build_faiss_index and of RAGComparison
kg_store == <<kg_nodes, kg_unembedded, kg_vector_index, kg_fulltext_index>>

graph_build_vars == <<graph_index_marker, kg_store, build_pc, force_rebuild,
                      build_ret>>

faiss_build_vars == <<faiss_index_exists, faiss_files, faiss_pc, faiss_ret>>

setup_vars == <<vector_store, faiss_retriever, graph_retriever, setup_error,
                setup_pc>>

index_vars == <<graph_build_vars, faiss_build_vars, setup_vars>>

vars == <<retrieval_vars, index_vars>>

(***************************************************************************)
(* Bounds of the model.                                                    *)
(***************************************************************************)
MaxTextLen == 4     \* longest argument given to generate_full_text_query
MaxNames == 2       \* longest list of names the entity chain returns
MaxFound == 2       \* most chunks one similarity search finds
MaxRelTypes == 101  \* relationships of the hub node of HubGraph

(***************************************************************************)
(* Python string primitives.                                               *)
(***************************************************************************)
\* A Python string is a sequence of its characters.  An ASCII character is
\* written as itself; a character outside ASCII is written by its code
\* point, "U+00C9" for the letter E with acute accent, so that the strings
\* do not depend on the encoding the module is read in.
\*
\* the whitespace of str.split() and str.strip(): \t, \n, \x0b, \f, \r,
\* \x1c-\x1f and space (the control characters \x0b and \x1c-\x1f stand
\* in the set as themselves), the next-line character, the no-break space
\* and the spaces and separators of Unicode
Whitespace ==
    {" ", "\n", "\t", "\r", "\f", "", "", "", "", "",
     "U+0085", "U+00A0", "U+1680", "U+2000", "U+2001", "U+2002", "U+2003",
     "U+2004", "U+2005", "U+2006", "U+2007", "U+2008", "U+2009", "U+200A",
     "U+2028", "U+2029", "U+202F", "U+205F", "U+3000"}

\* the cased letters of Latin-1, the character set the documents are read
\* in (TextLoader(..., encoding="latin-1")): A-Z and the capitals U+00C0 to
\* U+00DE without the multiplication sign U+00D7, each paired with its
\* lower-case letter; every other character of Latin-1 is its own
\* str.lower() and is not upper-case
UpperLetters ==
    \* "ABCDEFGHIJKLMNOPQRSTUVWXYZ"
    <<"A","B","C","D","E","F","G","H","I","J","K","L","M","N","O","P","Q","R","S","T","U","V","W","X","Y","Z">>
        \* "\xc0\xc1\xc2\xc3\xc4\xc5\xc6\xc7\xc8\xc9\xca\xcb\xcc\xcd\xce\xcf"
        \o <<"U+00C0","U+00C1","U+00C2","U+00C3","U+00C4","U+00C5","U+00C6","U+00C7","U+00C8","U+00C9","U+00CA","U+00CB","U+00CC","U+00CD","U+00CE","U+00CF">>
        \* "\xd0\xd1\xd2\xd3\xd4\xd5\xd6\xd8\xd9\xda\xdb\xdc\xdd\xde"
        \o <<"U+00D0","U+00D1","U+00D2","U+00D3","U+00D4","U+00D5","U+00D6","U+00D8","U+00D9","U+00DA","U+00DB","U+00DC","U+00DD","U+00DE">>

LowerLetters ==
    \* "abcdefghijklmnopqrstuvwxyz"
    <<"a","b","c","d","e","f","g","h","i","j","k","l","m","n","o","p","q","r","s","t","u","v","w","x","y","z">>
        \* "\xe0\xe1\xe2\xe3\xe4\xe5\xe6\xe7\xe8\xe9\xea\xeb\xec\xed\xee\xef"
        \o <<"U+00E0","U+00E1","U+00E2","U+00E3","U+00E4","U+00E5","U+00E6","U+00E7","U+00E8","U+00E9","U+00EA","U+00EB","U+00EC","U+00ED","U+00EE","U+00EF">>
        \* "\xf0\xf1\xf2\xf3\xf4\xf5\xf6\xf8\xf9\xfa\xfb\xfc\xfd\xfe"
        \o <<"U+00F0","U+00F1","U+00F2","U+00F3","U+00F4","U+00F5","U+00F6","U+00F8","U+00F9","U+00FA","U+00FB","U+00FC","U+00FD","U+00FE">>

\* str.isupper() of a one-character string
isupper(c) == \E i \in 1..Len(UpperLetters) : UpperLetters[i] = c

lower_char(c) ==
    IF isupper(c)
    THEN LowerLetters[CHOOSE i \in 1..Len(UpperLetters) : UpperLetters[i] = c]
    ELSE c

\* str.lower()
lower(s) == [i \in 1..Len(s) |-> lower_char(s[i])]

\* sub in s
contains(sub, s) ==
    \E i \in 0..(Len(s) - Len(sub)) : SubSeq(s, i + 1, i + Len(sub)) = sub

\* str.strip()
strip(s) ==
    LET keep == {i \in 1..Len(s) : s[i] \notin Whitespace}
    IN  IF keep = {} THEN << >>
        ELSE SubSeq(s, CHOOSE i \in keep : \A j \in keep : i <= j,
                       CHOOSE i \in keep : \A j \in keep : j <= i)

\* str.split(): split on runs of whitespace, no empty strings
RECURSIVE split(_)
split(s) ==
    IF s = << >> THEN << >>
    ELSE IF Head(s) \in Whitespace THEN split(Tail(s))
    ELSE LET stops == {i \in 1..Len(s) : s[i] \in Whitespace}
             n == IF stops = {} THEN Len(s) + 1
                  ELSE CHOOSE i \in stops : \A j \in stops : i <= j
         IN  <<SubSeq(s, 1, n - 1)>> \o split(SubSeq(s, n, Len(s)))

\* str.split(c): split on every occurrence of c, empty strings kept
RECURSIVE split_on(_, _)
split_on(s, c) ==
    LET at == {i \in 1..Len(s) : s[i] = c}
    IN  IF at = {} THEN <<s>>
        ELSE LET n == CHOOSE i \in at : \A j \in at : i <= j
             IN  <<SubSeq(s, 1, n - 1)>> \o split_on(SubSeq(s, n + 1, Len(s)), c)

\* sep.join(parts)
RECURSIVE join(_, _)
join(sep, parts) ==
    IF parts = << >> THEN << >>
    ELSE IF Len(parts) = 1 THEN parts[1]
    ELSE LET half == Len(parts) \div 2
         IN  join(sep, SubSeq(parts, 1, half)) \o sep
                 \o join(sep, SubSeq(parts, half + 1, Len(parts)))

\* outcome of a Python call: a returned value or a raised exception
Return(v) == [exc |-> "none", val |-> v]
Raise(e) == [exc |-> e, val |-> << >>]

(***************************************************************************)
(* generate_full_text_query (lines 33-40).                                 *)
(***************************************************************************)
\* characters langchain's remove_lucene_chars replaces by a space
lucene_special_chars ==
    {"+", "-", "&", "|", "!", "(", ")", "{", "}", "[", "]", "^", "\"", "~",
     "*", "?", ":", "\\", "/"}

remove_lucene_chars(text) ==
    strip([i \in 1..Len(text) |->
              IF text[i] \in lucene_special_chars THEN " " ELSE text[i]])

\* the loop of lines 37-38 over words[:-1], from word number i on
RECURSIVE ftq_loop(_, _)
ftq_loop(words, i) ==
    IF i >= Len(words) THEN << >>
    \* " " "~2 AND"
    ELSE <<" ">> \o words[i] \o <<"~","2"," ","A","N","D">> \o ftq_loop(words, i + 1)

generate_full_text_query(text) ==
    LET words == split(remove_lucene_chars(text))
    IN  IF words = << >>
        THEN Raise("IndexError")                    \* words[-1] of line 39
        \* " " "~2"
        ELSE Return(strip(ftq_loop(words, 1) \o <<" ">> \o words[Len(words)] \o <<"~","2">>))

(***************************************************************************)
(* The stores.                                                             *)
(***************************************************************************)
\* "SolarOptima"
SolarOptima == <<"S","o","l","a","r","O","p","t","i","m","a">>
\* "Aurora Dynamics"
AuroraDynamics == <<"A","u","r","o","r","a"," ","D","y","n","a","m","i","c","s">>
\* "ACQUIRED_BY"
ACQUIRED_BY == <<"A","C","Q","U","I","R","E","D","_","B","Y">>
\* "MENTIONS"
MENTIONS == <<"M","E","N","T","I","O","N","S">>

Edge(s, r, t) == [src |-> s, rel |-> r, dst |-> t]

EdgeUniverse ==
    {Edge(SolarOptima, ACQUIRED_BY, AuroraDynamics),
     Edge(AuroraDynamics, ACQUIRED_BY, SolarOptima),
     Edge(AuroraDynamics, MENTIONS, SolarOptima)}

\* decimal digits of a positive number, for the names of relationship types
RECURSIVE Digits(_)
Digits(n) ==
    \* "0123456789"
    IF n < 10 THEN <<SubSeq(<<"0","1","2","3","4","5","6","7","8","9">>, n + 1, n + 1)[1]>>
    \* "0123456789"
    ELSE Digits(n \div 10) \o <<SubSeq(<<"0","1","2","3","4","5","6","7","8","9">>, (n % 10) + 1, (n % 10) + 1)[1]>>

\* n relationships from the node Hub to the node Co, one per relationship
\* type R1, R2, ...
\* "Hub" "R" "Co"
HubEdges(n) == {Edge(<<"H","u","b">>, <<"R">> \o Digits(k), <<"C","o">>) : k \in 1..n}

\* a graph in which the node Hub has MaxRelTypes relationships
HubGraph == HubEdges(MaxRelTypes)

\* the first chunk begins with the name Emile Zola, its E with an acute
\* accent; the second has a no-break space between Sophia and Martinez
\* "\xc9mile Zola is the CFO. The CFO signed. CFO Nair\nOK."
ChunkA == <<"U+00C9","m","i","l","e"," ","Z","o","l","a"," ","i","s"," ","t","h","e"," ","C","F","O","."," ","T","h","e"," ","C","F","O"," ","s","i","g","n","e","d","."," ","C","F","O"," ","N","a","i","r","\n","O","K",".">>
\* "In May the Founder left. the president Sophia\xa0Martinez founded it"
ChunkB == <<"I","n"," ","M","a","y"," ","t","h","e"," ","F","o","u","n","d","e","r"," ","l","e","f","t","."," ","t","h","e"," ","p","r","e","s","i","d","e","n","t"," ","S","o","p","h","i","a","U+00A0","M","a","r","t","i","n","e","z"," ","f","o","u","n","d","e","d"," ","i","t">>

Chunks == {ChunkA, ChunkB}

\* the graph store and the vector index a retriever is constructed with
Envs ==
    [graph : {EdgeUniverse}, corpus : {{}}]
        \cup [graph : {{}}, corpus : {Chunks}]

(***************************************************************************)
(* Arguments of the calls.                                                 *)
(***************************************************************************)
\* a letter, four kinds of whitespace (space, \r, \x0b, no-break space) and
\* two Lucene special characters
TextAlphabet == {"a", " ", "\r", "", "U+00A0", "(", ")"}

RECURSIVE TextsUpTo(_)
TextsUpTo(n) ==
    IF n = 0 THEN {<< >>}
    ELSE LET shorter == TextsUpTo(n - 1)
         IN  shorter \cup {Append(t, c) : t \in shorter, c \in TextAlphabet}

Texts == TextsUpTo(MaxTextLen)


\* every sequence over S of length at most n
RECURSIVE SeqsUpTo(_, _)
SeqsUpTo(S, n) ==
    IF n = 0 THEN {<< >>}
    ELSE LET shorter == SeqsUpTo(S, n - 1)
         IN  shorter \cup {Append(t, x) : t \in shorter, x \in S}

Questions ==
    \* "Who approved the acquisition of SolarOptima?"
    {<<"W","h","o"," ","a","p","p","r","o","v","e","d"," ","t","h","e"," ","a","c","q","u","i","s","i","t","i","o","n"," ","o","f"," ","S","o","l","a","r","O","p","t","i","m","a","?">>,
     \* "Who is the CFO"
     <<"W","h","o"," ","i","s"," ","t","h","e"," ","C","F","O">>,
     \* "the Founder or President"
     <<"t","h","e"," ","F","o","u","n","d","e","r"," ","o","r"," ","P","r","e","s","i","d","e","n","t">>}

\* names the entity chain may return: two plain names and one made of query
\* syntax only
\* "()"
Names == {SolarOptima, AuroraDynamics, <<"(",")">>}

(***************************************************************************)
(* The collaborators.                                                      *)
(***************************************************************************)
\* a call to a collaborator and how it ended: "ok", "failed" (it raised) or
\* "malformed" (the language model answered outside the Entities schema)
Call(fn, arg, k, outcome) == [fn |-> fn, arg |-> arg, k |-> k, outcome |-> outcome]

\* what vector_index.similarity_search(query, k) may return: at most k chunks
\* of the index (two chunks of the index may have the same content), and at
\* most MaxFound of them
SimilaritySearchResults(k) == SeqsUpTo(corpus, IF k < MaxFound THEN k ELSE MaxFound)

extraction_outcome(response) ==
    IF response.kind = "names" THEN "ok"
    ELSE IF response.kind = "call_failed" THEN "failed" ELSE "malformed"

\* what entity_chain.invoke may do: return names, fail, or yield a response
\* that does not conform to Entities
ExtractionResponses ==
    [kind : {"names"}, names : SeqsUpTo(Names, MaxNames)]
        \cup [kind : {"call_failed", "malformed"}, names : {<< >>}]

\* mutant of on_store_error: the failed call is attempted again
retry_on_store_error(at) == at

\* lines 59, 83, 118, 123: no try/except encloses a store call, so an
\* exception raised at any point leaves the method
on_store_error(at) == "raised"

\* the clauses of the Cypher text of lines 84-95, in order
structured_query_clauses ==
    <<"CALL", "YIELD", "CALL", "WITH", "MATCH", "RETURN", "UNION ALL",
      "WITH", "MATCH", "RETURN", "RETURN", "LIMIT">>

\* the clauses of the Cypher text of lines 159-171, in order
relationships_query_clauses ==
    <<"CALL", "YIELD", "CALL", "WITH", "MATCH", "RETURN", "UNION ALL",
      "WITH", "MATCH", "RETURN", "RETURN", "LIMIT">>

\* what one clause of a Cypher text does to the relationships of the store:
\* DELETE and DETACH DELETE remove what was matched, CREATE and MERGE add,
\* every other clause reads
after_clause(g, clause) ==
    IF clause \in {"DELETE", "DETACH DELETE"} THEN {}
    ELSE IF clause \in {"CREATE", "MERGE"} THEN g \cup {Edge(<< >>, << >>, << >>)}
    ELSE g

RECURSIVE apply_clauses(_, _)
apply_clauses(g, clauses) ==
    IF clauses = << >> THEN g
    ELSE apply_clauses(after_clause(g, Head(clauses)), Tail(clauses))

\* mutant of graph_after_query: the text ends in a DETACH DELETE clause
graph_after_detach_delete(g, clauses) ==
    apply_clauses(g, clauses \o <<"DETACH DELETE">>)

\* lines 83-98 and 174-176: the graph store after kg.query has run the text
graph_after_query(g, clauses) == apply_clauses(g, clauses)

\* the chunks of the vector index after a call of one of its methods:
\* similarity_search (lines 59, 118, 123) reads, add_texts and delete write
corpus_after(method, c) ==
    IF method = "similarity_search" THEN c
    ELSE IF method = "delete" THEN {}
    ELSE c \cup {<< >>}

\* lines 17, 18 and 31: the attributes __init__ assigns
init_attributes ==
    [kg |-> "kg", vector_index |-> "vector_index",
     entity_chain |-> "prompt | chat.with_structured_output(Entities)"]

\* the assignments to attributes of self in the body of each method: lines
\* 17, 18 and 31 in __init__, none in lines 33-178
attribute_writes(method) == IF method = "__init__" THEN init_attributes ELSE << >>

\* the attributes of the retriever after a step of the method
attributes_after(method, attrs) ==
    [a \in DOMAIN attrs |->
        IF a \in DOMAIN attribute_writes(method) THEN attribute_writes(method)[a]
        ELSE attrs[a]]

NodesOf(g) == {e.src : e \in g} \cup {e.dst : e \in g}

full_text_limit == 3
triple_limit == 100

\* what db.index.fulltext.queryNodes('entity', $query, {limit:3}) may yield:
\* at most 3 distinct nodes, best score first
FullTextMatches(g) ==
    {h \in SeqsUpTo(NodesOf(g), full_text_limit) :
        \A i, j \in 1..Len(h) : i # j => h[i] # h[j]}

entity_limit == 5
relationship_limit == 20

\* what db.index.fulltext.queryNodes('entity', $entity_query, {limit: 5})
\* may yield
EntityMatches(g) ==
    {h \in SeqsUpTo(NodesOf(g), entity_limit) :
        \A i, j \in 1..Len(h) : i # j => h[i] # h[j]}

\* mutant of rel_allowed: the relationship pattern without the type exclusion
rel_any(r) == TRUE

\* [r:!MENTIONS]
rel_allowed(r) == r # MENTIONS

\* node.id + ' - ' + type(r) + ' -> ' + neighbor.id
\* " - " " -> "
out_line(node, r, neighbor) == node \o <<" ","-"," ">> \o r \o <<" ","-",">"," ">> \o neighbor

\* mutant of in_line: an incoming relationship written from the matched node
\* " - " " -> "
in_line_from_node(node, r, neighbor) == node \o <<" ","-"," ">> \o r \o <<" ","-",">"," ">> \o neighbor

\* neighbor.id + ' - ' + type(r) + ' -> ' + node.id
\* " - " " -> "
in_line(node, r, neighbor) == neighbor \o <<" ","-"," ">> \o r \o <<" ","-",">"," ">> \o node

\* the rows of a set of lines, in the order the store produces them (eight
\* rows are taken at a time to keep the recursion shallow)
RECURSIVE Rows(_)
Rows(S) ==
    IF S = {} THEN << >>
    ELSE IF Cardinality(S) < 8
         THEN LET x == CHOOSE y \in S : TRUE IN <<x>> \o Rows(S \ {x})
         ELSE LET x1 == CHOOSE y \in S : TRUE
                  x2 == CHOOSE y \in S \ {x1} : TRUE
                  x3 == CHOOSE y \in S \ {x1, x2} : TRUE
                  x4 == CHOOSE y \in S \ {x1, x2, x3} : TRUE
                  x5 == CHOOSE y \in S \ {x1, x2, x3, x4} : TRUE
                  x6 == CHOOSE y \in S \ {x1, x2, x3, x4, x5} : TRUE
                  x7 == CHOOSE y \in S \ {x1, x2, x3, x4, x5, x6} : TRUE
                  x8 == CHOOSE y \in S \ {x1, x2, x3, x4, x5, x6, x7} : TRUE
              IN  <<x1, x2, x3, x4, x5, x6, x7, x8>>
                      \o Rows(S \ {x1, x2, x3, x4, x5, x6, x7, x8})

\* rows of the CALL { ... UNION ALL ... } subquery for one matched node
node_rows(g, node) ==
    Rows({out_line(node, e.rel, e.dst) :
             e \in {f \in g : f.src = node /\ rel_allowed(f.rel)}})
    \o Rows({in_line(node, e.rel, e.src) :
                e \in {f \in g : f.dst = node /\ rel_allowed(f.rel)}})

RECURSIVE all_rows(_, _)
all_rows(g, hits) ==
    IF hits = << >> THEN << >>
    ELSE node_rows(g, Head(hits)) \o all_rows(g, Tail(hits))

\* mutant of kg_query: the query without its LIMIT
kg_query_unlimited(g, hits) == all_rows(g, hits)

\* the response of the Cypher query of lines 83-98 (RETURN output LIMIT 100)
kg_query(g, hits) ==
    LET rows == all_rows(g, hits)
    IN  SubSeq(rows, 1, IF Len(rows) < triple_limit THEN Len(rows) ELSE triple_limit)

\* rows of the CALL { ... UNION ALL ... } subquery of lines 161-169 for the
\* matched nodes: MATCH (node)-[r]->(neighbor), then MATCH (node)<-[r]-(neighbor)
RECURSIVE relationship_rows(_, _)
relationship_rows(g, hits) ==
    IF hits = << >> THEN << >>
    ELSE Rows({[source |-> e.src, relationship |-> e.rel, target |-> e.dst,
                \* "outgoing"
                direction |-> <<"o","u","t","g","o","i","n","g">>] : e \in {f \in g : f.src = Head(hits)}})
             \o Rows({[source |-> e.src, relationship |-> e.rel, target |-> e.dst,
                       \* "incoming"
                       direction |-> <<"i","n","c","o","m","i","n","g">>] : e \in {f \in g : f.dst = Head(hits)}})
             \o relationship_rows(g, Tail(hits))

\* the response of the Cypher query of lines 160-176 (LIMIT 20)
entity_relationships(g, hits) ==
    LET rows == relationship_rows(g, hits)
    IN  SubSeq(rows, 1, IF Len(rows) < relationship_limit THEN Len(rows)
                        ELSE relationship_limit)

(***************************************************************************)
(* find_role_mentions_in_context (lines 42-72).                            *)
(***************************************************************************)
role_patterns ==
    \* "CEO" "CFO" "CTO" "CIO" "COO"
    <<<<"C","E","O">>, <<"C","F","O">>, <<"C","T","O">>, <<"C","I","O">>, <<"C","O","O">>,
      \* "Chief Executive Officer" "Chief Financial Officer"
      <<"C","h","i","e","f"," ","E","x","e","c","u","t","i","v","e"," ","O","f","f","i","c","e","r">>, <<"C","h","i","e","f"," ","F","i","n","a","n","c","i","a","l"," ","O","f","f","i","c","e","r">>,
      \* "Chief Technology Officer" "Chief Innovation Officer"
      <<"C","h","i","e","f"," ","T","e","c","h","n","o","l","o","g","y"," ","O","f","f","i","c","e","r">>, <<"C","h","i","e","f"," ","I","n","n","o","v","a","t","i","o","n"," ","O","f","f","i","c","e","r">>,
      \* "Chief Operating Officer" "President" "Director"
      <<"C","h","i","e","f"," ","O","p","e","r","a","t","i","n","g"," ","O","f","f","i","c","e","r">>, <<"P","r","e","s","i","d","e","n","t">>, <<"D","i","r","e","c","t","o","r">>,
      \* "Head of" "founder" "founded"
      <<"H","e","a","d"," ","o","f">>, <<"f","o","u","n","d","e","r">>, <<"f","o","u","n","d","e","d">>>>

\* "The" "In" "As" "By"
name_stoplist == {<<"T","h","e">>, <<"I","n">>, <<"A","s">>, <<"B","y">>}

\* mutant of mentions: the test is case-sensitive
mentions_case_sensitive(pattern, text) == contains(pattern, text)

\* pattern.lower() in text.lower()
mentions(pattern, text) == contains(lower(pattern), lower(text))

\* w[0].isupper() and len(w) > 2 and w not in ['The', 'In', 'As', 'By']
is_potential_name(w) == isupper(w[1]) /\ Len(w) > 2 /\ w \notin name_stoplist

potential_names(sentence) == SelectSeq(split(sentence), is_potential_name)

\* mutant of likely_contains_names: one capitalised word is enough
one_name_suffices(names) == Len(names) >= 1

\* len(potential_names) >= 2
likely_contains_names(names) == Len(names) >= 2

\* lines 64-70 for one sentence
sentence_lines(sentence, pattern) ==
    IF mentions(pattern, sentence) /\ likely_contains_names(potential_names(sentence))
    \* "Role context: " "\n"
    THEN <<"R","o","l","e"," ","c","o","n","t","e","x","t",":"," ">> \o strip(sentence) \o <<"\n">>
    ELSE << >>

RECURSIVE sentences_lines(_, _)
sentences_lines(sentences, pattern) ==
    IF sentences = << >> THEN << >>
    ELSE sentence_lines(Head(sentences), pattern)
             \o sentences_lines(Tail(sentences), pattern)

\* lines 60-70: the role-context lines of the chunks of one search
RECURSIVE docs_lines(_, _)
docs_lines(ds, pattern) ==
    IF ds = << >> THEN << >>
    ELSE sentences_lines(split_on(Head(ds), "."), pattern)
             \o docs_lines(Tail(ds), pattern)

\* indices of the role patterns after position i that occur in the question
pending_patterns(q, i) ==
    {p \in (i + 1)..Len(role_patterns) : mentions(role_patterns[p], q)}

scan_k == 3

(***************************************************************************)
(* structured_retriever (lines 74-108).                                    *)
(***************************************************************************)
\* mutant of extracted_names: a failed extraction yields the empty name list
extracted_names_or_default(response) == Return(response.names)

\* lines 77 and 79: the names iterated over, or the error that ends the call
extracted_names(response) ==
    IF response.kind = "names" THEN Return(response.names)
    ELSE IF response.kind = "call_failed" THEN Raise("ExtractionError")
    ELSE Raise("ValidationError")

\* mutant of append_relationships: the block is put before the result
\* "\n" "\n"
prepend_relationships(acc, response) == join(<<"\n">>, response) \o <<"\n">> \o acc

\* lines 100-101
\* "\n" "\n"
append_relationships(acc, response) == acc \o join(<<"\n">>, response) \o <<"\n">>

\* mutant of append_role_context: the header is appended unconditionally
append_role_context_always(acc, rc) ==
    \* "\nRole-to-person context from documents:\n"
    acc \o <<"\n","R","o","l","e","-","t","o","-","p","e","r","s","o","n"," ","c","o","n","t","e","x","t"," ","f","r","o","m"," ","d","o","c","u","m","e","n","t","s",":","\n">> \o rc

\* lines 105-106
append_role_context(acc, rc) ==
    IF rc # << >>
    \* "\nRole-to-person context from documents:\n"
    THEN acc \o <<"\n","R","o","l","e","-","t","o","-","p","e","r","s","o","n"," ","c","o","n","t","e","x","t"," ","f","r","o","m"," ","d","o","c","u","m","e","n","t","s",":","\n">> \o rc
    ELSE acc

(***************************************************************************)
(* retrieve (lines 110-154).                                               *)
(***************************************************************************)
role_keywords ==
    \* "approved" "founded" "ceo" "cfo" "cto" "cio" "chief"
    <<<<"a","p","p","r","o","v","e","d">>, <<"f","o","u","n","d","e","d">>, <<"c","e","o">>, <<"c","f","o">>, <<"c","t","o">>, <<"c","i","o">>, <<"c","h","i","e","f">>,
      \* "head" "director"
      <<"h","e","a","d">>, <<"d","i","r","e","c","t","o","r">>>>

base_k == 4
boost_k == 2
final_cap == 6

\* mutant of is_role_related: the question is not lower-cased
is_role_related_case_sensitive(q) ==
    \E i \in 1..Len(role_keywords) : contains(role_keywords[i], q)

\* any(keyword in question.lower() for keyword in role_keywords)
is_role_related(q) ==
    \E i \in 1..Len(role_keywords) : contains(role_keywords[i], lower(q))

\* mutant of unique_docs: no chunk is dropped
keep_all_docs(combined, seen_content) == combined

\* lines 126-131: the first occurrence of every content, in order
RECURSIVE unique_docs(_, _)
unique_docs(combined, seen_content) ==
    IF combined = << >> THEN << >>
    ELSE IF Head(combined) \in seen_content
         THEN unique_docs(Tail(combined), seen_content)
         ELSE <<Head(combined)>>
                  \o unique_docs(Tail(combined), seen_content \cup {Head(combined)})

\* unique_docs[:6]
first_docs(ds) == SubSeq(ds, 1, IF Len(ds) < final_cap THEN Len(ds) ELSE final_cap)

\* mutant of boosted_unstructured_data: the boost results come first
boost_first_unstructured_data(base, role) == first_docs(unique_docs(role \o base, {}))

\* line 132
boosted_unstructured_data(base, role) == first_docs(unique_docs(base \o role, {}))

\* line 134
plain_unstructured_data(base) == base

\* mutant of final_data: the chunks are joined by a newline
final_data_newline_joined(structured, unstructured) ==
    \* "Structured data (Graph relationships):\n"
    <<"S","t","r","u","c","t","u","r","e","d"," ","d","a","t","a"," ","(","G","r","a","p","h"," ","r","e","l","a","t","i","o","n","s","h","i","p","s",")",":","\n">> \o structured
    \* "\n\nUnstructured data (Document chunks):\n"
    \o <<"\n","\n","U","n","s","t","r","u","c","t","u","r","e","d"," ","d","a","t","a"," ","(","D","o","c","u","m","e","n","t"," ","c","h","u","n","k","s",")",":","\n">>
    \* "\n"
    \o join(<<"\n">>, unstructured)
    \* "\n\nInstructions for role resolution:\n- When you see a role mentioned (like CFO, CTO, etc.), look through ALL the context to find who holds that role\n- Connect actions performed by roles to the specific people who hold those roles\n- If someone \"approved\" something and they're described by a role, identify the person's name\n"
    \o <<"\n","\n","I","n","s","t","r","u","c","t","i","o","n","s"," ","f","o","r"," ","r","o","l","e"," ","r","e","s","o","l","u","t","i","o","n",":","\n","-"," ","W","h","e","n"," ","y","o","u"," ","s","e","e"," ","a"," ","r","o","l","e"," ","m","e","n","t","i","o","n","e","d"," ","(","l","i","k","e"," ","C","F","O",","," ","C","T","O",","," ","e","t","c",".",")",","," ","l","o","o","k"," ","t","h","r","o","u","g","h"," ","A","L","L"," ","t","h","e"," ","c","o","n","t","e","x","t"," ","t","o"," ","f","i","n","d"," ","w","h","o"," ","h","o","l","d","s"," ","t","h","a","t"," ","r","o","l","e","\n","-"," ","C","o","n","n","e","c","t"," ","a","c","t","i","o","n","s"," ","p","e","r","f","o","r","m","e","d"," ","b","y"," ","r","o","l","e","s"," ","t","o"," ","t","h","e"," ","s","p","e","c","i","f","i","c"," ","p","e","o","p","l","e"," ","w","h","o"," ","h","o","l","d"," ","t","h","o","s","e"," ","r","o","l","e","s","\n","-"," ","I","f"," ","s","o","m","e","o","n","e"," ","\"","a","p","p","r","o","v","e","d","\""," ","s","o","m","e","t","h","i","n","g"," ","a","n","d"," ","t","h","e","y","'","r","e"," ","d","e","s","c","r","i","b","e","d"," ","b","y"," ","a"," ","r","o","l","e",","," ","i","d","e","n","t","i","f","y"," ","t","h","e"," ","p","e","r","s","o","n","'","s"," ","n","a","m","e","\n">>

\* lines 137-147
final_data(structured, unstructured) ==
    \* "Structured data (Graph relationships):\n"
    <<"S","t","r","u","c","t","u","r","e","d"," ","d","a","t","a"," ","(","G","r","a","p","h"," ","r","e","l","a","t","i","o","n","s","h","i","p","s",")",":","\n">> \o structured
    \* "\n\nUnstructured data (Document chunks):\n"
    \o <<"\n","\n","U","n","s","t","r","u","c","t","u","r","e","d"," ","d","a","t","a"," ","(","D","o","c","u","m","e","n","t"," ","c","h","u","n","k","s",")",":","\n">>
    \* "#Document "
    \o join(<<"#","D","o","c","u","m","e","n","t"," ">>, unstructured)
    \* "\n\nInstructions for role resolution:\n- When you see a role mentioned (like CFO, CTO, etc.), look through ALL the context to find who holds that role\n- Connect actions performed by roles to the specific people who hold those roles\n- If someone \"approved\" something and they're described by a role, identify the person's name\n"
    \o <<"\n","\n","I","n","s","t","r","u","c","t","i","o","n","s"," ","f","o","r"," ","r","o","l","e"," ","r","e","s","o","l","u","t","i","o","n",":","\n","-"," ","W","h","e","n"," ","y","o","u"," ","s","e","e"," ","a"," ","r","o","l","e"," ","m","e","n","t","i","o","n","e","d"," ","(","l","i","k","e"," ","C","F","O",","," ","C","T","O",","," ","e","t","c",".",")",","," ","l","o","o","k"," ","t","h","r","o","u","g","h"," ","A","L","L"," ","t","h","e"," ","c","o","n","t","e","x","t"," ","t","o"," ","f","i","n","d"," ","w","h","o"," ","h","o","l","d","s"," ","t","h","a","t"," ","r","o","l","e","\n","-"," ","C","o","n","n","e","c","t"," ","a","c","t","i","o","n","s"," ","p","e","r","f","o","r","m","e","d"," ","b","y"," ","r","o","l","e","s"," ","t","o"," ","t","h","e"," ","s","p","e","c","i","f","i","c"," ","p","e","o","p","l","e"," ","w","h","o"," ","h","o","l","d"," ","t","h","o","s","e"," ","r","o","l","e","s","\n","-"," ","I","f"," ","s","o","m","e","o","n","e"," ","\"","a","p","p","r","o","v","e","d","\""," ","s","o","m","e","t","h","i","n","g"," ","a","n","d"," ","t","h","e","y","'","r","e"," ","d","e","s","c","r","i","b","e","d"," ","b","y"," ","a"," ","r","o","l","e",","," ","i","d","e","n","t","i","f","y"," ","t","h","e"," ","p","e","r","s","o","n","'","s"," ","n","a","m","e","\n">>

(***************************************************************************)
(* Initial state: a retriever constructed over some stores, no call made.  *)
(***************************************************************************)
\* no method of the retriever is running
Idle ==
    /\ pc = "idle"
    /\ entry = "none"
    /\ input_text = << >>
    /\ question = << >>
    /\ entities = << >>
    /\ idx = 0
    /\ node_hits = << >>
    /\ result = << >>
    /\ pattern_idx = 0
    /\ docs = << >>
    /\ role_context = << >>
    /\ structured_data = << >>
    /\ base_docs = << >>
    /\ role_docs = << >>
    /\ unstructured_data = << >>
    /\ ret = << >>
    /\ error = "none"
    /\ calls = << >>
    /\ attributes = init_attributes

\* the graph index held by Neo4j: "empty" without nodes, "complete" when
\* all nodes are stored and embedded and both indexes exist (what
\* create_graph_index leaves, graph_indexer.py lines 45-64), else "partial"
kg_index ==
    IF kg_nodes = "none" THEN "empty"
    ELSE IF kg_nodes = "all" /\ ~kg_unembedded /\ kg_vector_index /\ kg_fulltext_index
         THEN "complete"
         ELSE "partial"

\* nothing has been built or set up
Unbuilt ==
    /\ graph_index_marker = FALSE
    /\ kg_nodes = "none"
    /\ kg_unembedded = FALSE
    /\ kg_vector_index = FALSE
    /\ kg_fulltext_index = FALSE
    /\ build_pc = "idle"
    /\ force_rebuild = FALSE
    /\ build_ret = "none"
    /\ faiss_index_exists = FALSE
    /\ faiss_files = FALSE
    /\ faiss_pc = "idle"
    /\ faiss_ret = "none"
    /\ vector_store = "None"
    /\ faiss_retriever = "unset"
    /\ graph_retriever = "unset"
    /\ setup_error = "none"
    /\ setup_pc = "idle"

Init ==
    /\ \E env \in Envs : graph = env.graph /\ corpus = env.corpus
    /\ Idle
    /\ Unbuilt

\* the caller invokes generate_full_text_query(text)
Call_generate_full_text_query ==
    /\ pc = "idle"
    /\ \E text \in Texts :
        LET out == generate_full_text_query(text)
        IN  /\ input_text' = text
            /\ entry' = "generate_full_text_query"
            /\ pc' = IF out.exc = "none" THEN "returned" ELSE "raised"
            /\ error' = out.exc
            /\ ret' = IF out.exc = "none" THEN <<out.val>> ELSE << >>
    /\ UNCHANGED <<graph, corpus, question, entities, idx, node_hits, result,
                   pattern_idx, docs, role_context, structured_data, base_docs,
                   role_docs, unstructured_data, calls>>
    /\ attributes' = attributes_after("generate_full_text_query", attributes)
    /\ UNCHANGED index_vars


\* the caller invokes find_role_mentions_in_context(q)
Call_find_role_mentions_in_context ==
    /\ pc = "idle"
    /\ \E q \in Questions : question' = q
    /\ entry' = "find_role_mentions_in_context"
    /\ pc' = "scan"
    /\ UNCHANGED <<graph, corpus, input_text, entities, idx, node_hits, result,
                   pattern_idx, docs, role_context, structured_data, base_docs,
                   role_docs, unstructured_data, ret, error, calls>>
    /\ attributes' = attributes_after("find_role_mentions_in_context", attributes)
    /\ UNCHANGED index_vars

\* the caller invokes structured_retriever(q)
Call_structured_retriever ==
    /\ pc = "idle"
    /\ \E q \in Questions : question' = q
    /\ entry' = "structured_retriever"
    /\ pc' = "extract"
    /\ UNCHANGED <<graph, corpus, input_text, entities, idx, node_hits, result,
                   pattern_idx, docs, role_context, structured_data, base_docs,
                   role_docs, unstructured_data, ret, error, calls>>
    /\ attributes' = attributes_after("structured_retriever", attributes)
    /\ UNCHANGED index_vars

\* the caller invokes retrieve(q), which calls structured_retriever(q)
\* (line 115)
Call_retrieve ==
    /\ pc = "idle"
    /\ \E q \in Questions : question' = q
    /\ entry' = "retrieve"
    /\ pc' = "extract"
    /\ UNCHANGED <<graph, corpus, input_text, entities, idx, node_hits, result,
                   pattern_idx, docs, role_context, structured_data, base_docs,
                   role_docs, unstructured_data, ret, error, calls>>
    /\ attributes' = attributes_after("retrieve", attributes)
    /\ UNCHANGED index_vars

\* lines 76-79: entity_chain.invoke and the names of its response
Extract ==
    /\ pc = "extract"
    /\ \E response \in ExtractionResponses :
        LET out == extracted_names(response)
        IN  /\ entities' = out.val
            /\ error' = out.exc
            /\ pc' = IF out.exc = "none" THEN "entities" ELSE "raised"
            /\ calls' = Append(calls, Call("entity_chain.invoke", question, 0,
                                           extraction_outcome(response)))
    /\ result' = << >>
    /\ idx' = 0
    /\ UNCHANGED <<graph, corpus, entry, input_text, question, node_hits,
                   pattern_idx, docs, role_context, structured_data, base_docs,
                   role_docs, unstructured_data, ret>>
    /\ attributes' = attributes_after("structured_retriever", attributes)
    /\ UNCHANGED index_vars

\* lines 79-101: one iteration of the loop over entities.names
Query_entity ==
    /\ pc = "entities"
    /\ idx < Len(entities)
    /\ LET query == generate_full_text_query(entities[idx + 1])
       IN  IF query.exc # "none"
           THEN \* the argument of kg.query raises: kg.query is not called
                /\ pc' = "raised"
                /\ error' = query.exc
                /\ UNCHANGED <<calls, node_hits, result, idx, graph>>
           ELSE \E hits \in FullTextMatches(graph) :
                /\ calls' = Append(calls, Call("kg.query", query.val, full_text_limit, "ok"))
                /\ node_hits' = hits
                /\ result' = append_relationships(result, kg_query(graph, hits))
                /\ idx' = idx + 1
                /\ graph' = graph_after_query(graph, structured_query_clauses)
                /\ UNCHANGED <<pc, error>>
    /\ UNCHANGED <<corpus, entry, input_text, question, entities,
                   pattern_idx, docs, role_context, structured_data, base_docs,
                   role_docs, unstructured_data, ret>>
    /\ attributes' = attributes_after("structured_retriever", attributes)
    /\ UNCHANGED index_vars

\* lines 83-98: kg.query raises
Query_entity_fails ==
    /\ pc = "entities"
    /\ idx < Len(entities)
    /\ LET query == generate_full_text_query(entities[idx + 1])
       IN  /\ query.exc = "none"
           /\ calls' = Append(calls, Call("kg.query", query.val, full_text_limit, "failed"))
    /\ pc' = on_store_error(pc)
    /\ error' = IF pc' = "raised" THEN "GraphStoreError" ELSE error
    /\ UNCHANGED <<graph, corpus, entry, input_text, question, entities, idx,
                   node_hits, result, pattern_idx, docs, role_context,
                   structured_data, base_docs, role_docs, unstructured_data, ret>>
    /\ attributes' = attributes_after("structured_retriever", attributes)
    /\ UNCHANGED index_vars

\* line 104: the loop over the entities is over, the scanner is called
Call_scanner ==
    /\ pc = "entities"
    /\ idx = Len(entities)
    /\ pc' = "scan"
    /\ UNCHANGED <<graph, corpus, entry, input_text, question, entities, idx,
                   node_hits, result, pattern_idx, docs, role_context,
                   structured_data, base_docs, role_docs, unstructured_data,
                   ret, error, calls>>
    /\ attributes' = attributes_after("structured_retriever", attributes)
    /\ UNCHANGED index_vars

\* lines 56-70: the loop advances to the next role pattern that occurs in
\* the question, searches for it and scans the chunks found
Scan_pattern ==
    /\ pc = "scan"
    /\ pending_patterns(question, pattern_idx) # {}
    /\ LET p == CHOOSE i \in pending_patterns(question, pattern_idx) :
                    \A j \in pending_patterns(question, pattern_idx) : i <= j
           pattern == role_patterns[p]
       IN  /\ calls' = Append(calls, Call("similarity_search",
                                          \* " person name who"
                                          pattern \o <<" ","p","e","r","s","o","n"," ","n","a","m","e"," ","w","h","o">>, scan_k, "ok"))
           /\ \E found \in SimilaritySearchResults(scan_k) :
                /\ docs' = found
                /\ role_context' = role_context \o docs_lines(found, pattern)
           /\ pattern_idx' = p
    /\ UNCHANGED <<graph, pc, entry, input_text, question, entities, idx,
                   node_hits, result, structured_data, base_docs, role_docs,
                   unstructured_data, ret, error>>
    /\ corpus' = corpus_after("similarity_search", corpus)
    /\ attributes' = attributes_after("find_role_mentions_in_context", attributes)
    /\ UNCHANGED index_vars

\* line 59: similarity_search raises
Scan_pattern_fails ==
    /\ pc = "scan"
    /\ pending_patterns(question, pattern_idx) # {}
    /\ LET p == CHOOSE i \in pending_patterns(question, pattern_idx) :
                    \A j \in pending_patterns(question, pattern_idx) : i <= j
       IN  calls' = Append(calls, Call("similarity_search",
                                       \* " person name who"
                                       role_patterns[p] \o <<" ","p","e","r","s","o","n"," ","n","a","m","e"," ","w","h","o">>, scan_k, "failed"))
    /\ pc' = on_store_error(pc)
    /\ error' = IF pc' = "raised" THEN "VectorStoreError" ELSE error
    /\ UNCHANGED <<graph, corpus, entry, input_text, question, entities, idx,
                   node_hits, result, pattern_idx, docs, role_context,
                   structured_data, base_docs, role_docs, unstructured_data, ret>>
    /\ attributes' = attributes_after("find_role_mentions_in_context", attributes)
    /\ UNCHANGED index_vars

\* line 72: the scanner returns; lines 104-108 and 115 when it was called
\* by structured_retriever
Scan_return ==
    /\ pc = "scan"
    /\ pending_patterns(question, pattern_idx) = {}
    /\ IF entry = "find_role_mentions_in_context"
       THEN /\ ret' = <<role_context>>
            /\ pc' = "returned"
            /\ UNCHANGED <<result, structured_data>>
       ELSE /\ result' = append_role_context(result, role_context)
            /\ IF entry = "structured_retriever"
               THEN /\ ret' = <<result'>>
                    /\ pc' = "returned"
                    /\ UNCHANGED structured_data
               ELSE /\ structured_data' = result'
                    /\ pc' = "base_search"
                    /\ UNCHANGED ret
    /\ docs' = << >>              \* the scanner's local dies with its frame
    /\ UNCHANGED <<graph, corpus, entry, input_text, question, entities, idx,
                   node_hits, pattern_idx, role_context, base_docs,
                   role_docs, unstructured_data, error, calls>>
    /\ attributes' = attributes_after("find_role_mentions_in_context", attributes)
    /\ UNCHANGED index_vars

\* lines 118-122 and 134: the base search; without a role keyword its
\* results are the unstructured data
Base_search ==
    /\ pc = "base_search"
    /\ calls' = Append(calls, Call("similarity_search", question, base_k, "ok"))
    /\ \E found \in SimilaritySearchResults(base_k) :
        /\ base_docs' = found
        /\ IF is_role_related(question)
           THEN pc' = "boost_search" /\ UNCHANGED unstructured_data
           ELSE pc' = "compose" /\ unstructured_data' = plain_unstructured_data(found)
    /\ UNCHANGED <<graph, entry, input_text, question, entities, idx,
                   node_hits, result, pattern_idx, docs, role_context,
                   structured_data, role_docs, ret, error>>
    /\ corpus' = corpus_after("similarity_search", corpus)
    /\ attributes' = attributes_after("retrieve", attributes)
    /\ UNCHANGED index_vars

\* lines 123-132: the role-focused search, merged with the base results
Boost_search ==
    /\ pc = "boost_search"
    /\ calls' = Append(calls, Call("similarity_search",
                                   \* "role position "
                                   <<"r","o","l","e"," ","p","o","s","i","t","i","o","n"," ">> \o question, boost_k, "ok"))
    /\ \E found \in SimilaritySearchResults(boost_k) :
        /\ role_docs' = found
        /\ unstructured_data' = boosted_unstructured_data(base_docs, found)
    /\ pc' = "compose"
    /\ UNCHANGED <<graph, entry, input_text, question, entities, idx,
                   node_hits, result, pattern_idx, docs, role_context,
                   structured_data, base_docs, ret, error>>
    /\ corpus' = corpus_after("similarity_search", corpus)
    /\ attributes' = attributes_after("retrieve", attributes)
    /\ UNCHANGED index_vars

\* lines 118 and 123: similarity_search raises
Unstructured_search_fails ==
    /\ pc \in {"base_search", "boost_search"}
    /\ calls' = Append(calls,
                       IF pc = "base_search"
                       THEN Call("similarity_search", question, base_k, "failed")
                       ELSE Call("similarity_search",
                                 \* "role position "
                                 <<"r","o","l","e"," ","p","o","s","i","t","i","o","n"," ">> \o question, boost_k, "failed"))
    /\ pc' = on_store_error(pc)
    /\ error' = IF pc' = "raised" THEN "VectorStoreError" ELSE error
    /\ UNCHANGED <<graph, corpus, entry, input_text, question, entities, idx,
                   node_hits, result, pattern_idx, docs, role_context,
                   structured_data, base_docs, role_docs, unstructured_data, ret>>
    /\ attributes' = attributes_after("retrieve", attributes)
    /\ UNCHANGED index_vars

\* lines 156-178: get_entity_relationships(entity_name)
Call_get_entity_relationships ==
    /\ pc = "idle"
    /\ \E name \in Names :
        LET query == generate_full_text_query(name)
        IN  /\ input_text' = name
            /\ IF query.exc # "none"
               THEN /\ pc' = "raised"
                    /\ error' = query.exc
                    /\ UNCHANGED <<calls, node_hits, ret, graph>>
               ELSE \E hits \in EntityMatches(graph) :
                    /\ calls' = <<Call("kg.query", query.val, entity_limit, "ok")>>
                    /\ node_hits' = hits
                    /\ ret' = <<entity_relationships(graph, hits)>>
                    /\ pc' = "returned"
                    /\ graph' = graph_after_query(graph, relationships_query_clauses)
                    /\ UNCHANGED error
    /\ entry' = "get_entity_relationships"
    /\ UNCHANGED <<corpus, question, entities, idx, result, pattern_idx, docs,
                   role_context, structured_data, base_docs, role_docs,
                   unstructured_data>>
    /\ attributes' = attributes_after("get_entity_relationships", attributes)
    /\ UNCHANGED index_vars

\* line 160: kg.query raises
Get_entity_relationships_fails ==
    /\ pc = "idle"
    /\ \E name \in Names :
        LET query == generate_full_text_query(name)
        IN  /\ query.exc = "none"
            /\ input_text' = name
            /\ calls' = <<Call("kg.query", query.val, entity_limit, "failed")>>
    /\ entry' = "get_entity_relationships"
    /\ pc' = "raised"
    /\ error' = "GraphStoreError"
    /\ UNCHANGED <<graph, corpus, question, entities, idx, node_hits, result,
                   pattern_idx, docs, role_context, structured_data, base_docs,
                   role_docs, unstructured_data, ret>>
    /\ attributes' = attributes_after("get_entity_relationships", attributes)
    /\ UNCHANGED index_vars

\* lines 137-154: the context string is composed and returned
Compose ==
    /\ pc = "compose"
    /\ ret' = <<final_data(structured_data, unstructured_data)>>
    /\ pc' = "returned"
    /\ UNCHANGED <<graph, corpus, entry, input_text, question, entities, idx,
                   node_hits, result, pattern_idx, docs, role_context,
                   structured_data, base_docs, role_docs, unstructured_data,
                   error, calls>>
    /\ attributes' = attributes_after("retrieve", attributes)
    /\ UNCHANGED index_vars

\* the call is over: the local variables of its frame are gone; the stores
\* and the attributes of the retriever stay as the call left them
Return_to_caller ==
    /\ pc \in {"returned", "raised"}
    /\ pc' = "idle"
    /\ entry' = "none"
    /\ input_text' = << >>
    /\ question' = << >>
    /\ entities' = << >>
    /\ idx' = 0
    /\ node_hits' = << >>
    /\ result' = << >>
    /\ pattern_idx' = 0
    /\ docs' = << >>
    /\ role_context' = << >>
    /\ structured_data' = << >>
    /\ base_docs' = << >>
    /\ role_docs' = << >>
    /\ unstructured_data' = << >>
    /\ ret' = << >>
    /\ error' = "none"
    /\ calls' = << >>
    /\ UNCHANGED <<graph, corpus, attributes>>
    /\ UNCHANGED index_vars

Next ==
    \/ Call_generate_full_text_query
    \/ Call_find_role_mentions_in_context
    \/ Call_structured_retriever
    \/ Call_retrieve
    \/ Extract
    \/ Query_entity
    \/ Query_entity_fails
    \/ Call_scanner
    \/ Scan_pattern
    \/ Scan_pattern_fails
    \/ Scan_return
    \/ Base_search
    \/ Boost_search
    \/ Unstructured_search_fails
    \/ Compose
    \/ Call_get_entity_relationships
    \/ Get_entity_relationships_fails
    \/ Return_to_caller

Spec == Init /\ [][Next]_vars

(***************************************************************************)
(* structured_retriever over a graph whose hub node has more relationships *)
(* than one query returns.                                                 *)
(***************************************************************************)
HubInit ==
    /\ graph = HubGraph
    /\ corpus = {}
    /\ Idle
    /\ Unbuilt

HubNext ==
    \/ Call_structured_retriever
    \/ Extract
    \/ Query_entity
    \/ Query_entity_fails
    \/ Call_scanner
    \/ Scan_pattern
    \/ Scan_pattern_fails
    \/ Scan_return
    \/ Return_to_caller

HubSpec == HubInit /\ [][HubNext]_vars

(***************************************************************************)
(* retrieve for a question with at most one extracted name, over graphs    *)
(* that hold the relationship between SolarOptima and Aurora Dynamics in   *)
(* one direction only, alone or beside the relationships of a hub node.    *)
(***************************************************************************)
ForwardGraph == {Edge(SolarOptima, ACQUIRED_BY, AuroraDynamics)}

ReverseGraph == {Edge(AuroraDynamics, ACQUIRED_BY, SolarOptima)}

\* the hub has one relationship more than a query returns
CrowdedGraph == HubGraph \cup ForwardGraph

\* the hub has one relationship less than a query returns
BrimGraph == HubEdges(triple_limit - 1) \cup ForwardGraph

ScenarioInit ==
    /\ graph \in {ForwardGraph, ReverseGraph, CrowdedGraph, BrimGraph}
    /\ corpus = {}
    /\ Idle
    /\ Unbuilt

\* lines 76-79 with an entity chain that returns at most one name
Extract_one_name == Extract /\ Len(entities') <= 1

ScenarioNext ==
    \/ Call_retrieve
    \/ Extract_one_name
    \/ Query_entity
    \/ Query_entity_fails
    \/ Call_scanner
    \/ Scan_pattern
    \/ Scan_pattern_fails
    \/ Scan_return
    \/ Base_search
    \/ Boost_search
    \/ Unstructured_search_fails
    \/ Compose
    \/ Return_to_caller

ScenarioSpec == ScenarioInit /\ [][ScenarioNext]_vars

(***************************************************************************)
(* Building the indices (build_indices.py, graph_indexer.py,               *)
(* faiss_indexer.py) and setting the retrievers up (main.py,               *)
(* faiss_retriever.py).  One run of build_graph_index, one run of          *)
(* build_faiss_index and one RAGComparison are in progress at a time; they *)
(* belong to different processes, so their steps interleave at every call  *)
(* that waits for Neo4j, the embedding service or the file system.         *)
(***************************************************************************)
\* how a call to a store or to the file system may end
Outcomes == {"ok", "failed"}

\* build_indices.py lines 51-57: the marker check of build_graph_index
Call_build_graph_index ==
    /\ build_pc = "idle"
    /\ \E force \in BOOLEAN :
        /\ force_rebuild' = force
        /\ IF graph_index_marker /\ ~force
           THEN build_ret' = "True" /\ build_pc' = "idle"
           ELSE build_ret' = "none" /\ build_pc' = "connect"
    /\ UNCHANGED <<graph_index_marker, kg_store, faiss_build_vars, setup_vars,
                   retrieval_vars>>

\* build_indices.py line 59: GraphIndexer()
Connect_graph_indexer ==
    /\ build_pc = "connect"
    /\ build_pc' = IF force_rebuild THEN "clear" ELSE "build"
    /\ UNCHANGED <<graph_index_marker, kg_store, force_rebuild, build_ret,
                   faiss_build_vars, setup_vars, retrieval_vars>>

\* build_indices.py lines 62-64: MATCH (n) DETACH DELETE n removes the
\* nodes with their relationships and embeddings; the indexes stay defined
Clear_graph ==
    /\ build_pc = "clear"
    /\ kg_nodes' = "none"
    /\ kg_unembedded' = FALSE
    /\ build_pc' = "build"
    /\ UNCHANGED <<kg_vector_index, kg_fulltext_index, graph_index_marker,
                   force_rebuild, build_ret, faiss_build_vars, setup_vars,
                   retrieval_vars>>

\* build_indices.py line 66, graph_indexer.py lines 69-71 and 45: build_index
\* loads and splits the file and has the LLM transform the chunks; nothing
\* is stored yet
Convert_to_graph_documents ==
    /\ build_pc = "build"
    /\ build_pc' = "add"
    /\ UNCHANGED <<graph_index_marker, kg_store, force_rebuild, build_ret,
                   faiss_build_vars, setup_vars, retrieval_vars>>

\* what the store holds once add_graph_documents has returned: all nodes
\* and relationships; the Document nodes it had to create have no
\* embedding
after_add_graph_documents(nodes, unembedded) ==
    [nodes |-> "all", unembedded |-> nodes # "all" \/ unembedded]

\* graph_indexer.py lines 48-52: kg.add_graph_documents
Add_graph_documents ==
    /\ build_pc = "add"
    /\ kg_nodes' = after_add_graph_documents(kg_nodes, kg_unembedded).nodes
    /\ kg_unembedded' = after_add_graph_documents(kg_nodes, kg_unembedded).unembedded
    /\ build_pc' = "vector"
    /\ UNCHANGED <<kg_vector_index, kg_fulltext_index, graph_index_marker,
                   force_rebuild, build_ret, faiss_build_vars, setup_vars,
                   retrieval_vars>>

\* graph_indexer.py lines 55-61: Neo4jVector.from_existing_graph makes the
\* vector index when it is missing and embeds the Document nodes that have
\* no embedding
From_existing_graph ==
    /\ build_pc = "vector"
    /\ kg_vector_index' = TRUE
    /\ kg_unembedded' = FALSE
    /\ build_pc' = "fulltext"
    /\ UNCHANGED <<kg_nodes, kg_fulltext_index, graph_index_marker,
                   force_rebuild, build_ret, faiss_build_vars, setup_vars,
                   retrieval_vars>>

\* graph_indexer.py lines 64-67: CREATE FULLTEXT INDEX entity IF NOT
\* EXISTS, the last step of create_graph_index
Create_fulltext_index ==
    /\ build_pc = "fulltext"
    /\ kg_fulltext_index' = TRUE
    /\ build_pc' = "stats"
    /\ UNCHANGED <<kg_nodes, kg_unembedded, kg_vector_index, graph_index_marker,
                   force_rebuild, build_ret, faiss_build_vars, setup_vars,
                   retrieval_vars>>

\* build_indices.py line 67: get_graph_stats
Get_graph_stats ==
    /\ build_pc = "stats"
    /\ build_pc' = "mark"
    /\ UNCHANGED <<graph_index_marker, kg_store, force_rebuild, build_ret,
                   faiss_build_vars, setup_vars, retrieval_vars>>

\* build_indices.py lines 70-74: the marker file is written
Write_marker ==
    /\ build_pc = "mark"
    /\ graph_index_marker' = TRUE
    /\ build_ret' = "True"
    /\ build_pc' = "idle"
    /\ UNCHANGED <<kg_store, force_rebuild, faiss_build_vars, setup_vars,
                   retrieval_vars>>

\* what an add_graph_documents that raised may leave in Neo4j
\* (graph_indexer.py line 48): the store as it was, or some new nodes
after_failed_build(nodes, unembedded) ==
    {[nodes |-> nodes, unembedded |-> unembedded]}
        \cup (IF nodes = "all" THEN {}
              ELSE {[nodes |-> "some", unembedded |-> TRUE]})

\* what a from_existing_graph that raised may leave (graph_indexer.py line
\* 55, main.py line 62): it makes the index before it embeds the nodes
after_failed_vector_index(vector_index) == {vector_index, TRUE}

\* what a failed write of the marker may leave: open(..., 'w') (line 70)
\* creates the file before f.write (line 71) or the close raises
after_failed_mark(marker) == {marker, TRUE}

\* build_indices.py lines 75-77: a step of the try block raised
Build_step_fails ==
    /\ build_pc \in {"connect", "clear", "build", "add", "vector", "fulltext",
                     "stats", "mark"}
    /\ \E left \in (IF build_pc = "add" THEN after_failed_build(kg_nodes, kg_unembedded)
                     ELSE {[nodes |-> kg_nodes, unembedded |-> kg_unembedded]}) :
          kg_nodes' = left.nodes /\ kg_unembedded' = left.unembedded
    /\ kg_vector_index' \in (IF build_pc = "vector"
                             THEN after_failed_vector_index(kg_vector_index)
                             ELSE {kg_vector_index})
    /\ graph_index_marker' \in (IF build_pc = "mark"
                                THEN after_failed_mark(graph_index_marker)
                                ELSE {graph_index_marker})
    /\ build_ret' = "False"
    /\ build_pc' = "idle"
    /\ UNCHANGED <<kg_fulltext_index, force_rebuild, faiss_build_vars,
                   setup_vars, retrieval_vars>>

\* build_indices.py lines 29-37: the test of the path faiss_index
Call_build_faiss_index ==
    /\ faiss_pc = "idle"
    /\ \E force \in BOOLEAN :
        IF faiss_index_exists /\ ~force
        THEN faiss_ret' = "True" /\ faiss_pc' = "idle"
        ELSE faiss_ret' = "none" /\ faiss_pc' = "build"
    /\ UNCHANGED <<faiss_index_exists, faiss_files, graph_build_vars,
                   setup_vars, retrieval_vars>>

\* build_indices.py lines 39-40, faiss_indexer.py lines 10-14 and 48-51:
\* the chunks are embedded and the store is made in memory
Build_faiss_index ==
    /\ faiss_pc = "build"
    /\ faiss_pc' = "save"
    /\ UNCHANGED <<faiss_index_exists, faiss_files, faiss_ret,
                   graph_build_vars, setup_vars, retrieval_vars>>

\* build_indices.py line 41, faiss_indexer.py lines 53-56: save_local first
\* makes the directory faiss_index
Save_index_makes_directory ==
    /\ faiss_pc = "save"
    /\ faiss_index_exists' = TRUE
    /\ faiss_pc' = "write"
    /\ UNCHANGED <<faiss_files, faiss_ret, graph_build_vars, setup_vars,
                   retrieval_vars>>

\* faiss_indexer.py lines 56-57: save_local then writes index.faiss and
\* index.pkl into the directory
Save_index_writes_files ==
    /\ faiss_pc = "write"
    /\ faiss_files' = TRUE
    /\ faiss_pc' = "stats"
    /\ UNCHANGED <<faiss_index_exists, faiss_ret, graph_build_vars,
                   setup_vars, retrieval_vars>>

\* build_indices.py lines 42-44: get_index_stats, return True
Get_index_stats ==
    /\ faiss_pc = "stats"
    /\ faiss_ret' = "True"
    /\ faiss_pc' = "idle"
    /\ UNCHANGED <<faiss_index_exists, faiss_files, graph_build_vars,
                   setup_vars, retrieval_vars>>

\* what a failed write of the index files may leave: the files as they
\* were, or a file cut short
after_failed_save(files) == {files, FALSE}

\* build_indices.py lines 45-47: a step of the try block raised
Faiss_step_fails ==
    /\ faiss_pc \in {"build", "save", "write", "stats"}
    /\ faiss_files' \in (IF faiss_pc = "write" THEN after_failed_save(faiss_files)
                         ELSE {faiss_files})
    /\ faiss_ret' = "False"
    /\ faiss_pc' = "idle"
    /\ UNCHANGED <<faiss_index_exists, graph_build_vars, setup_vars,
                   retrieval_vars>>

\* main.py lines 43-51: setup_graph_rag tests the marker file, whatever a
\* build_graph_index run of another process is doing
Setup_graph_rag ==
    /\ setup_pc = "idle"
    /\ IF ~graph_index_marker
       THEN setup_error' = "FileNotFoundError" /\ setup_pc' = "idle"
       ELSE setup_error' = "none" /\ setup_pc' = "connect"
    /\ UNCHANGED <<vector_store, faiss_retriever, graph_retriever,
                   graph_build_vars, faiss_build_vars, retrieval_vars>>

\* main.py lines 53-59: setup_graph_rag connects to Neo4j
Connect_graph_rag ==
    /\ setup_pc = "connect"
    /\ \E outcome \in Outcomes :
        IF outcome = "failed"
        THEN setup_error' = "ConnectionError" /\ setup_pc' = "idle"
        ELSE setup_error' = "none" /\ setup_pc' = "vector"
    /\ UNCHANGED <<vector_store, faiss_retriever, graph_retriever,
                   graph_build_vars, faiss_build_vars, retrieval_vars>>

\* main.py lines 61-72: Neo4jVector.from_existing_graph makes the vector
\* index when it is missing and embeds the Document nodes that have no
\* embedding, as in the build; the retriever is made over the graph as it
\* is then
Connect_vector_index ==
    /\ setup_pc = "vector"
    /\ UNCHANGED <<kg_nodes, kg_fulltext_index>>
    /\ \E outcome \in Outcomes :
        IF outcome = "failed"
        THEN /\ setup_error' = "ConnectionError"
             /\ kg_vector_index' \in after_failed_vector_index(kg_vector_index)
             /\ UNCHANGED <<kg_unembedded, graph_retriever>>
        ELSE /\ setup_error' = "none"
             /\ kg_vector_index' = TRUE
             /\ kg_unembedded' = FALSE
             /\ graph_retriever' = kg_index'
    /\ setup_pc' = "idle"
    /\ UNCHANGED <<graph_index_marker, build_pc, force_rebuild, build_ret, vector_store, faiss_retriever,
                   faiss_build_vars, retrieval_vars>>

\* how FAISS.load_local may end (faiss_indexer.py line 62): it returns only
\* when both index files are in the directory
load_outcomes(files) == IF files THEN Outcomes ELSE {"failed"}

\* faiss_indexer.py lines 59-71: load_index sets vector_store when
\* FAISS.load_local returns, and catches the exception when it raises
load_index(before, outcome) == IF outcome = "ok" THEN "store" ELSE before

\* main.py lines 74-82: setup_faiss_rag tests the path faiss_index
Setup_faiss_rag ==
    /\ setup_pc = "idle"      \* the methods of one RAGComparison run in turn
    /\ IF ~faiss_index_exists
       THEN setup_error' = "FileNotFoundError" /\ setup_pc' = "idle"
       ELSE setup_error' = "none" /\ setup_pc' = "load"
    /\ UNCHANGED <<vector_store, faiss_retriever, graph_retriever,
                   graph_build_vars, faiss_build_vars, retrieval_vars>>

\* main.py lines 84-90: a new FAISSIndexer loads the index and its
\* vector_store is wrapped
Load_faiss_index ==
    /\ setup_pc = "load"
    /\ \E outcome \in load_outcomes(faiss_files) :
        /\ vector_store' = load_index("None", outcome)
        /\ faiss_retriever' = vector_store'
    /\ setup_error' = "none"
    /\ setup_pc' = "idle"
    /\ UNCHANGED <<graph_retriever, graph_build_vars, faiss_build_vars,
                   retrieval_vars>>

\* faiss_retriever.py lines 8-25: a query on the wrapped store; line 13
\* fails on None, and the search of a loaded store may raise as well
Faiss_retrieve ==
    /\ setup_pc = "idle"
    /\ faiss_retriever # "unset"
    /\ \E outcome \in Outcomes :
        setup_error' = IF faiss_retriever = "None" THEN "AttributeError"
                       ELSE IF outcome = "failed" THEN "VectorStoreError"
                       ELSE "none"
    /\ UNCHANGED <<vector_store, faiss_retriever, graph_retriever, setup_pc,
                   graph_build_vars, faiss_build_vars, retrieval_vars>>

IndexInit ==
    /\ graph = {}
    /\ corpus = {}
    /\ Idle
    /\ Unbuilt

IndexNext ==
    \/ Call_build_graph_index
    \/ Connect_graph_indexer
    \/ Clear_graph
    \/ Convert_to_graph_documents
    \/ Add_graph_documents
    \/ From_existing_graph
    \/ Create_fulltext_index
    \/ Get_graph_stats
    \/ Write_marker
    \/ Build_step_fails
    \/ Call_build_faiss_index
    \/ Build_faiss_index
    \/ Save_index_makes_directory
    \/ Save_index_writes_files
    \/ Get_index_stats
    \/ Faiss_step_fails
    \/ Setup_graph_rag
    \/ Connect_graph_rag
    \/ Connect_vector_index
    \/ Setup_faiss_rag
    \/ Load_faiss_index
    \/ Faiss_retrieve

IndexSpec == IndexInit /\ [][IndexNext]_vars

(***************************************************************************)
(* Claims about generate_full_text_query.                                  *)
(***************************************************************************)
\* a character that belongs to a token: neither whitespace nor query syntax
TokenChar(c) == c \notin Whitespace \cup lucene_special_chars

\* positions of text at which a token starts
TokenStarts(text) ==
    {i \in 1..Len(text) :
        TokenChar(text[i]) /\ (i = 1 \/ ~TokenChar(text[i - 1]))}

\* the token of text that starts at position i
TokenAt(text, i) ==
    SubSeq(text, i,
           CHOOSE j \in i..Len(text) :
               /\ \A k \in i..j : TokenChar(text[k])
               /\ (j = Len(text) \/ ~TokenChar(text[j + 1])))

tokenCount(text) == Cardinality(TokenStarts(text))

\* the query the contract describes: every token of text from position
\* `from` on, in order, suffixed with ~2, AND between adjacent tokens
RECURSIVE FuzzyQueryFrom(_, _)
FuzzyQueryFrom(text, from) ==
    LET starts == {i \in TokenStarts(text) : i >= from}
    IN  IF starts = {} THEN << >>
        ELSE LET i == CHOOSE k \in starts : \A j \in starts : k <= j
                 tok == TokenAt(text, i)
                 rest == FuzzyQueryFrom(text, i + Len(tok))
             \* "~2" " AND "
             IN  tok \o <<"~","2">> \o (IF rest = << >> THEN << >> ELSE <<" ","A","N","D"," ">> \o rest)

FtqCalled == entry = "generate_full_text_query" /\ pc # "idle"

\* C1: for all input text, generate_full_text_query returns the string made
\* of the tokenCount tokens of the text, in order, each suffixed with ~2, with
\* AND between every adjacent pair and no leading or trailing AND.
C1_EveryInputYieldsFuzzyQuery ==
    FtqCalled => /\ error = "none"
                 /\ ret = <<FuzzyQueryFrom(input_text, 1)>>
                 /\ Len(split(ret[1])) = 2 * tokenCount(input_text) - 1

\* The part of C1 the code does satisfy: whenever the text holds at least one
\* token, the returned string is the contract's query.
FtqCorrectOnTokens ==
    (FtqCalled /\ tokenCount(input_text) >= 1) =>
        /\ error = "none"
        /\ ret = <<FuzzyQueryFrom(input_text, 1)>>
        /\ Len(split(ret[1])) = 2 * tokenCount(input_text) - 1

\* C2: on an input that leaves zero tokens after stripping (empty, whitespace
\* only, or only query-syntax characters) generate_full_text_query returns
\* the empty string and does not raise.
C2_EmptyInputYieldsEmptyQuery ==
    (FtqCalled /\ tokenCount(input_text) = 0) =>
        \* ""
        (error = "none" /\ ret = <<<< >>>>)

\* the case of C2 happens: a call on an input without tokens has ended
FtqEmptyInputCalled ==
    \* "()"
    FtqCalled /\ tokenCount(input_text) = 0 /\ input_text = <<"(",")">>


(***************************************************************************)
(* Claims about the retrieval pipeline.                                    *)
(***************************************************************************)
Lines(s) == split_on(s, "\n")

Range(seq) == {seq[i] : i \in 1..Len(seq)}

HasRepeat(seq) == \E i, j \in 1..Len(seq) : i < j /\ seq[i] = seq[j]

StructuredEntry == entry \in {"structured_retriever", "retrieve"}

\* every collaborator call made so far returned normally
CollaboratorsOk == \A i \in 1..Len(calls) : calls[i].outcome = "ok"

\* structured_retriever has returned to its caller
StructuredReturned ==
    \/ entry = "structured_retriever" /\ pc = "returned"
    \/ entry = "retrieve" /\ pc \in {"base_search", "boost_search", "compose", "returned"}

\* the string structured_retriever returned
StructuredOutput == IF entry = "structured_retriever" THEN ret[1] ELSE structured_data

\* retrieve has finished its unstructured retrieval step
UnstructuredDone == entry = "retrieve" /\ pc \in {"compose", "returned"}

\* the similarity searches of the unstructured retrieval step
UnstructuredCalls ==
    SelectSeq(calls, LAMBDA c : c.fn = "similarity_search" /\ c.k # scan_k)

GraphQueries == SelectSeq(calls, LAMBDA c : c.fn = "kg.query")

\* the role-keyword list of the contract
ClaimRoleKeywords ==
    \* "approved" "founded" "ceo" "cfo" "cto" "cio" "chief"
    {<<"a","p","p","r","o","v","e","d">>, <<"f","o","u","n","d","e","d">>, <<"c","e","o">>, <<"c","f","o">>, <<"c","t","o">>, <<"c","i","o">>, <<"c","h","i","e","f">>,
     \* "head" "director"
     <<"h","e","a","d">>, <<"d","i","r","e","c","t","o","r">>}

KeywordPresent(q) == \E kw \in ClaimRoleKeywords : contains(kw, lower(q))

\* entities whose fuzzy query has no token
EmptyQueryEntities == {i \in 1..Len(entities) : tokenCount(entities[i]) = 0}

\* C3: during structured retrieval, for every extracted entity whose fuzzy
\* query is the empty string the search backend is not invoked, the entity
\* contributes no triple, no error is raised and the remaining entities are
\* still processed.
C3_EmptyQueryEntitySkipped ==
    (StructuredEntry /\ EmptyQueryEntities # {}) =>
        /\ error # "IndexError"
        /\ (CollaboratorsOk => pc # "raised")
        /\ (StructuredReturned =>
                Len(GraphQueries) = Len(entities) - Cardinality(EmptyQueryEntities))

\* a stored relationship written as source - relation -> target
\* " - " " -> "
TripleLine(e) == e.src \o <<" ","-"," ">> \o e.rel \o <<" ","-",">"," ">> \o e.dst

\* C4: for any graph content and any matched nodes, no triple line returned
\* by the neighbor query has the MENTIONS relation type, in either direction:
\* every line accumulated by the entity loop is a stored relationship of
\* another type.
C4_NoMentionsTriple ==
    (StructuredEntry /\ pc = "entities") =>
        \* " - MENTIONS -> "
        /\ ~contains(<<" ","-"," ","M","E","N","T","I","O","N","S"," ","-",">"," ">>, result)
        /\ \A i \in 1..Len(Lines(result)) :
               Lines(result)[i] # << >> =>
                   \E e \in graph : e.rel # MENTIONS /\ Lines(result)[i] = TripleLine(e)

\* the case of C4: a query matched both ends of a stored MENTIONS
\* relationship and a node that has relationships of another type
MentionsNodesMatched ==
    /\ StructuredEntry /\ pc = "entities" /\ idx >= 1
    /\ Edge(AuroraDynamics, MENTIONS, SolarOptima) \in graph
    /\ Edge(SolarOptima, ACQUIRED_BY, AuroraDynamics) \in graph
    /\ {AuroraDynamics, SolarOptima} \subseteq Range(node_hits)

\* C5: the unstructured retrieval step of retrieve issues exactly two
\* similarity searches when the lower-cased question contains a role keyword
\* and exactly one when it contains none.
C5_SearchCallCount ==
    UnstructuredDone =>
        Len(UnstructuredCalls) = IF KeywordPresent(question) THEN 2 ELSE 1

\* the case of C5: retrieve has returned for a question whose keyword is
\* found only after lower-casing
BoostedQuestionReturned ==
    /\ entry = "retrieve" /\ pc = "returned"
    \* "Who is the CFO"
    /\ question = <<"W","h","o"," ","i","s"," ","t","h","e"," ","C","F","O">>
    /\ Len(UnstructuredCalls) = 2

\* C6 as stated: the unstructured chunk list holds each content string at
\* most once and at most 6 items, whether or not the question contains a
\* role keyword.
C6_AlwaysDeduplicated ==
    UnstructuredDone =>
        (~HasRepeat(unstructured_data) /\ Len(unstructured_data) <= 6)

\* C6 amended: the unstructured chunk list has at most 6 items; when the
\* question contains a role keyword it holds each content string at most
\* once; when it contains none it is the base results as returned, repeated
\* contents included.
C6_DeduplicatedWhenBoosted ==
    UnstructuredDone =>
        /\ Len(unstructured_data) <= 6
        /\ (KeywordPresent(question) => ~HasRepeat(unstructured_data))
        /\ (~KeywordPresent(question) => unstructured_data = base_docs)

\* the case of C6: a boosted retrieval whose searches returned the same
\* content within the base results and across base and boost results
RepeatedContentBoosted ==
    /\ UnstructuredDone /\ KeywordPresent(question)
    /\ HasRepeat(base_docs)
    /\ Range(role_docs) \cap Range(base_docs) # {}

\* positions of s at which a whitespace-delimited word starts
WordStarts(s) ==
    {i \in 1..Len(s) :
        s[i] \notin Whitespace /\ (i = 1 \/ s[i - 1] \in Whitespace)}

WordAt(s, i) ==
    SubSeq(s, i,
           CHOOSE j \in i..Len(s) :
               /\ \A k \in i..j : s[k] \notin Whitespace
               /\ (j = Len(s) \/ s[j + 1] \in Whitespace))

\* the upper-case letters of the characters a document can hold
UppercaseCharacters ==
    \* "ABCDEFGHIJKLMNOPQRSTUVWXYZ"
    Range(<<"A","B","C","D","E","F","G","H","I","J","K","L","M","N","O","P","Q","R","S","T","U","V","W","X","Y","Z">>)
        \* "\xc0\xc1\xc2\xc3\xc4\xc5\xc6\xc7\xc8\xc9\xca\xcb\xcc\xcd\xce\xcf\xd0\xd1\xd2\xd3\xd4\xd5\xd6"
        \cup Range(<<"U+00C0","U+00C1","U+00C2","U+00C3","U+00C4","U+00C5","U+00C6","U+00C7","U+00C8","U+00C9","U+00CA","U+00CB","U+00CC","U+00CD","U+00CE","U+00CF","U+00D0","U+00D1","U+00D2","U+00D3","U+00D4","U+00D5","U+00D6">>)
        \* "\xd8\xd9\xda\xdb\xdc\xdd\xde"
        \cup Range(<<"U+00D8","U+00D9","U+00DA","U+00DB","U+00DC","U+00DD","U+00DE">>)

\* first character uppercase, length > 2, not in the stoplist
NameLike(w) ==
    /\ w[1] \in UppercaseCharacters
    /\ Len(w) >= 3
    \* "The" "In" "As" "By"
    /\ w \notin {<<"T","h","e">>, <<"I","n">>, <<"A","s">>, <<"B","y">>}

NameLikeCount(s) == Cardinality({i \in WordStarts(s) : NameLike(WordAt(s, i))})

RECURSIVE AllSentences(_)
AllSentences(ds) ==
    IF ds = << >> THEN << >>
    ELSE split_on(Head(ds), ".") \o AllSentences(Tail(ds))

\* the lines the contract allows for the sentences ss and the role token
RECURSIVE AllowedRoleLines(_, _)
AllowedRoleLines(ss, token) ==
    IF ss = << >> THEN << >>
    ELSE (IF contains(lower(token), lower(Head(ss))) /\ NameLikeCount(Head(ss)) >= 2
          \* "Role context: " "\n"
          THEN <<"R","o","l","e"," ","c","o","n","t","e","x","t",":"," ">> \o strip(Head(ss)) \o <<"\n">>
          ELSE << >>)
         \o AllowedRoleLines(Tail(ss), token)

\* C7: every 'Role context:' line the scanner emits comes from a sentence
\* that contains the matched role token (case-insensitively) and at least 2
\* name-like words, and no line is emitted for a sentence with fewer: each
\* search extends role_context by exactly the lines of such sentences.
C7_RoleLinesNeedTwoNames ==
    [][(pc = "scan" /\ pc' = "scan" /\ pattern_idx' # pattern_idx) =>
           role_context' = role_context
               \o AllowedRoleLines(AllSentences(docs'), role_patterns[pattern_idx'])]_vars

\* the case of C7: the scanner searched for CFO and got a chunk with a
\* sentence of three name-like words, one of them beginning with an
\* accented capital, and a sentence with a single name-like word
RoleChunkScanned ==
    /\ pc = "scan"
    /\ pattern_idx = 2
    \* "Role context: \xc9mile Zola is the CFO\n"
    /\ contains(<<"R","o","l","e"," ","c","o","n","t","e","x","t",":"," ","U+00C9","m","i","l","e"," ","Z","o","l","a"," ","i","s"," ","t","h","e"," ","C","F","O","\n">>, role_context)
    /\ \E i \in 1..Len(AllSentences(docs)) :
           \* "cfo"
           /\ contains(<<"c","f","o">>, lower(AllSentences(docs)[i]))
           /\ NameLikeCount(AllSentences(docs)[i]) = 1

\* extraction succeeded and returned no name
ZeroNamesExtracted ==
    /\ StructuredEntry
    /\ Len(calls) >= 1
    /\ calls[1].outcome = "ok"
    /\ entities = << >>

\* an exception left structured_retriever: the call that failed last was
\* not a search of the unstructured step of retrieve
StructuredRaised ==
    /\ StructuredEntry /\ pc = "raised"
    /\ ~(calls[Len(calls)].fn = "similarity_search" /\ calls[Len(calls)].k # scan_k)

\* a similarity search of the Role-Context Scanner failed
ScannerSearchFailed ==
    \E i \in 1..Len(calls) :
        /\ calls[i].fn = "similarity_search" /\ calls[i].k = scan_k
        /\ calls[i].outcome = "failed"

\* what structured_retriever returns when no name was extracted
ZeroEntitiesOutput ==
    StructuredReturned =>
        StructuredOutput =
            IF role_context = << >> THEN << >>
            \* "\nRole-to-person context from documents:\n"
            ELSE <<"\n","R","o","l","e","-","t","o","-","p","e","r","s","o","n"," ","c","o","n","t","e","x","t"," ","f","r","o","m"," ","d","o","c","u","m","e","n","t","s",":","\n">> \o role_context

\* C8 as stated: when entity extraction succeeds with zero names,
\* structured_retriever issues no graph query, never raises, and returns only
\* the scanner's output for the question (the empty string when the scanner
\* finds nothing).
C8_ZeroEntitiesNeverRaises ==
    ZeroNamesExtracted =>
        /\ GraphQueries = << >>
        /\ ~StructuredRaised
        /\ ZeroEntitiesOutput

\* C8: when entity extraction succeeds with zero names, structured_retriever
\* issues no graph query, raises only when a similarity search of the
\* scanner fails (that failure leaves structured_retriever), and otherwise
\* returns only the scanner's output for the question, under its header, or
\* the empty string when the scanner finds nothing.
C8_ZeroEntities ==
    ZeroNamesExtracted =>
        /\ GraphQueries = << >>
        /\ (StructuredRaised <=> ScannerSearchFailed)
        /\ (StructuredRaised => error = "VectorStoreError")
        /\ ZeroEntitiesOutput

\* the case of C8: structured_retriever returned after zero names, once with
\* scanner output
ZeroEntitiesReturned ==
    /\ ZeroNamesExtracted
    /\ entry = "structured_retriever" /\ pc = "returned"
    /\ role_context # << >>

\* retrieve returned for the question of the scenario with the entity
\* SolarOptima extracted, the full-text search matched the node SolarOptima
\* and that node has an ACQUIRED_BY relationship with Aurora Dynamics
SolarOptimaScenario ==
    /\ entry = "retrieve" /\ pc = "returned"
    \* "Who approved the acquisition of SolarOptima?"
    /\ question = <<"W","h","o"," ","a","p","p","r","o","v","e","d"," ","t","h","e"," ","a","c","q","u","i","s","i","t","i","o","n"," ","o","f"," ","S","o","l","a","r","O","p","t","i","m","a","?">>
    /\ entities = <<SolarOptima>>
    /\ SolarOptima \in Range(node_hits)
    /\ \/ Edge(SolarOptima, ACQUIRED_BY, AuroraDynamics) \in graph
       \/ Edge(AuroraDynamics, ACQUIRED_BY, SolarOptima) \in graph

\* the relationship of the scenario is in the structured output as it is
\* stored, and not the other way round
StoredDirectionWritten ==
    \* "SolarOptima - ACQUIRED_BY -> Aurora Dynamics"
    /\ <<"S","o","l","a","r","O","p","t","i","m","a"," ","-"," ","A","C","Q","U","I","R","E","D","_","B","Y"," ","-",">"," ","A","u","r","o","r","a"," ","D","y","n","a","m","i","c","s">> \in Range(Lines(structured_data))
           <=> Edge(SolarOptima, ACQUIRED_BY, AuroraDynamics) \in graph
    \* "Aurora Dynamics - ACQUIRED_BY -> SolarOptima"
    /\ <<"A","u","r","o","r","a"," ","D","y","n","a","m","i","c","s"," ","-"," ","A","C","Q","U","I","R","E","D","_","B","Y"," ","-",">"," ","S","o","l","a","r","O","p","t","i","m","a">> \in Range(Lines(structured_data))
           <=> Edge(AuroraDynamics, ACQUIRED_BY, SolarOptima) \in graph

\* rows the relationships of the matched nodes give: one per matched node
\* and relationship other than MENTIONS that leaves it or enters it
MatchedRowCount ==
    Cardinality({t \in (1..Len(node_hits)) \X graph \X {"out", "in"} :
                    /\ t[2].rel # MENTIONS
                    /\ node_hits[t[1]] = (IF t[3] = "out" THEN t[2].src ELSE t[2].dst)})

\* C9 as stated: for the question "Who approved the acquisition of
\* SolarOptima?" with the entity SolarOptima extracted and a graph in which
\* the full-text search matches node SolarOptima and that node has an
\* ACQUIRED_BY edge with node Aurora Dynamics, the unstructured path issues 2
\* similarity searches and the structured output contains the relationship
\* written source - ACQUIRED_BY -> target as it is stored, whichever end was
\* matched.
C9_SolarOptimaScenario ==
    SolarOptimaScenario =>
        /\ Len(UnstructuredCalls) = 2
        /\ StoredDirectionWritten

\* C9: in that scenario the unstructured path issues 2 similarity searches,
\* and when the matched nodes give at most 100 rows (the LIMIT of the
\* query) the structured output contains the relationship written
\* source - ACQUIRED_BY -> target as it is stored, whichever end was
\* matched; with more rows the first 100 are kept and the line may be cut.
C9_ScenarioWithinLimit ==
    SolarOptimaScenario =>
        /\ Len(UnstructuredCalls) = 2
        /\ (MatchedRowCount <= 100 => StoredDirectionWritten)

\* the case of C9: the matched node SolarOptima is the target of the stored
\* relationship
SolarOptimaMatchedAsTarget ==
    /\ SolarOptimaScenario
    /\ node_hits = <<SolarOptima>>
    /\ Edge(AuroraDynamics, ACQUIRED_BY, SolarOptima) \in graph
    /\ Edge(SolarOptima, ACQUIRED_BY, AuroraDynamics) \notin graph

\* the entity chain failed or answered outside the schema
ExtractionFailed ==
    /\ Len(calls) >= 1
    /\ calls[1].fn = "entity_chain.invoke"
    /\ calls[1].outcome # "ok"

\* C10: if the language-model call for entity extraction fails or returns a
\* malformed structure, structured_retriever and retrieve end with that
\* error: no name list is substituted, no graph query or similarity search
\* follows and no context string is returned.
C10_ExtractionFailurePropagates ==
    ExtractionFailed =>
        /\ pc = "raised"
        /\ error \in {"ExtractionError", "ValidationError"}
        /\ Len(calls) = 1
        /\ ret = << >>
        /\ result = << >> /\ structured_data = << >> /\ unstructured_data = << >>

\* the case of C10: retrieve ended on a malformed extraction response
MalformedExtractionRaised ==
    /\ entry = "retrieve"
    /\ ExtractionFailed
    /\ calls[1].outcome = "malformed"
    /\ pc = "raised"

(***************************************************************************)
(* Failures of the stores and the frame of the retrieval core.             *)
(***************************************************************************)
StoreCalls == {"kg.query", "similarity_search"}

\* C11: if any graph query or similarity-search call fails at any point of
\* retrieve, the failure leaves retrieve at once: the failed call is the
\* last call of that retrieval (it is not retried and no other call
\* follows), and no context string is returned.
C11_StoreFailurePropagates ==
    \A i \in 1..Len(calls) :
        (entry = "retrieve" /\ calls[i].fn \in StoreCalls /\ calls[i].outcome = "failed")
            => /\ i = Len(calls)
               /\ pc = "raised"
               /\ error \in {"GraphStoreError", "VectorStoreError"}
               /\ ret = << >>

\* the case of C11: the boost search failed after the graph evidence and
\* the base search had been obtained
BoostSearchFailed ==
    /\ entry = "retrieve"
    /\ structured_data # << >>
    /\ Len(calls) >= 2
    /\ calls[Len(calls)].k = boost_k /\ calls[Len(calls)].outcome = "failed"
    /\ calls[Len(calls) - 1].k = base_k /\ calls[Len(calls) - 1].outcome = "ok"

\* no value of a call is left: what a later call can see of the retriever
\* is its three attributes
NoCallState ==
    /\ entry = "none" /\ input_text = << >> /\ question = << >>
    /\ entities = << >> /\ idx = 0 /\ node_hits = << >> /\ result = << >>
    /\ pattern_idx = 0 /\ docs = << >> /\ role_context = << >>
    /\ structured_data = << >> /\ base_docs = << >> /\ role_docs = << >>
    /\ unstructured_data = << >> /\ ret = << >> /\ error = "none"
    /\ calls = << >>

\* C12: every query the retrieval core issues is read-only: no step of
\* structured_retriever, find_role_mentions_in_context, retrieve or
\* get_entity_relationships changes the relationships of the graph store or
\* the chunks of the vector store, over any sequence of calls; and the
\* retriever keeps no mutable state from one question to the next: no step
\* changes its attributes, and between two calls it holds the attributes
\* __init__ gave it and nothing of an earlier call.
C12_StoresReadOnly ==
    /\ [][graph' = graph /\ corpus' = corpus /\ attributes' = attributes]_vars
    /\ [](pc = "idle" =>
             /\ attributes = [kg |-> "kg", vector_index |-> "vector_index",
                              entity_chain |-> "prompt | chat.with_structured_output(Entities)"]
             /\ NoCallState)

\* the case of C12: get_entity_relationships returned the relationships of
\* a matched node, an incoming MENTIONS relationship among them
EntityRelationshipsReturned ==
    /\ entry = "get_entity_relationships" /\ pc = "returned"
    /\ \E i \in 1..Len(ret[1]) :
           \* "incoming"
           ret[1][i].relationship = MENTIONS /\ ret[1][i].direction = <<"i","n","c","o","m","i","n","g">>
    /\ graph # {}

(***************************************************************************)
(* The context string and the unstructured chunk list.                     *)
(***************************************************************************)
\* "Structured data (Graph relationships):\n"
StructuredLabel == <<"S","t","r","u","c","t","u","r","e","d"," ","d","a","t","a"," ","(","G","r","a","p","h"," ","r","e","l","a","t","i","o","n","s","h","i","p","s",")",":","\n">>
\* "\n\nUnstructured data (Document chunks):\n"
UnstructuredLabel == <<"\n","\n","U","n","s","t","r","u","c","t","u","r","e","d"," ","d","a","t","a"," ","(","D","o","c","u","m","e","n","t"," ","c","h","u","n","k","s",")",":","\n">>
\* "\n\nInstructions for role resolution:\n- When you see a role mentioned (like CFO, CTO, etc.), look through ALL the context to find who holds that role\n- Connect actions performed by roles to the specific people who hold those roles\n- If someone \"approved\" something and they're described by a role, identify the person's name\n"
InstructionBlock == <<"\n","\n","I","n","s","t","r","u","c","t","i","o","n","s"," ","f","o","r"," ","r","o","l","e"," ","r","e","s","o","l","u","t","i","o","n",":","\n","-"," ","W","h","e","n"," ","y","o","u"," ","s","e","e"," ","a"," ","r","o","l","e"," ","m","e","n","t","i","o","n","e","d"," ","(","l","i","k","e"," ","C","F","O",","," ","C","T","O",","," ","e","t","c",".",")",","," ","l","o","o","k"," ","t","h","r","o","u","g","h"," ","A","L","L"," ","t","h","e"," ","c","o","n","t","e","x","t"," ","t","o"," ","f","i","n","d"," ","w","h","o"," ","h","o","l","d","s"," ","t","h","a","t"," ","r","o","l","e","\n","-"," ","C","o","n","n","e","c","t"," ","a","c","t","i","o","n","s"," ","p","e","r","f","o","r","m","e","d"," ","b","y"," ","r","o","l","e","s"," ","t","o"," ","t","h","e"," ","s","p","e","c","i","f","i","c"," ","p","e","o","p","l","e"," ","w","h","o"," ","h","o","l","d"," ","t","h","o","s","e"," ","r","o","l","e","s","\n","-"," ","I","f"," ","s","o","m","e","o","n","e"," ","\"","a","p","p","r","o","v","e","d","\""," ","s","o","m","e","t","h","i","n","g"," ","a","n","d"," ","t","h","e","y","'","r","e"," ","d","e","s","c","r","i","b","e","d"," ","b","y"," ","a"," ","r","o","l","e",","," ","i","d","e","n","t","i","f","y"," ","t","h","e"," ","p","e","r","s","o","n","'","s"," ","n","a","m","e","\n">>

\* the chunks from position i on, "#Document " between every two of them
RECURSIVE DocumentSeparated(_, _)
DocumentSeparated(chunks, i) ==
    IF i > Len(chunks) THEN << >>
    \* "#Document "
    ELSE chunks[i] \o (IF i < Len(chunks) THEN <<"#","D","o","c","u","m","e","n","t"," ">> ELSE << >>)
             \o DocumentSeparated(chunks, i + 1)

RetrieveReturned == entry = "retrieve" /\ pc = "returned"

\* C13: the context string retrieve returns is the structured label and
\* structured_retriever's output, then the unstructured label and the
\* selected chunks in order with "#Document " between them, then the fixed
\* instruction block, whatever the question and the evidence.
C13_ContextHasThreeSections ==
    RetrieveReturned =>
        ret = <<StructuredLabel \o structured_data
                    \o UnstructuredLabel \o DocumentSeparated(unstructured_data, 1)
                    \o InstructionBlock>>

\* the case of C13: a context composed of graph or role evidence and of
\* several chunks
SeveralChunksComposed ==
    /\ RetrieveReturned
    /\ structured_data # << >>
    /\ Len(unstructured_data) >= 2

\* the first occurrence of every content of a list, in order
FirstOccurrences(ds) ==
    LET keep == {i \in 1..Len(ds) : \A j \in 1..(i - 1) : ds[j] # ds[i]}
        nth(n) == CHOOSE i \in keep : Cardinality({j \in keep : j < i}) = n - 1
    IN  [n \in 1..Cardinality(keep) |-> ds[nth(n)]]

FirstSix(ds) == SubSeq(ds, 1, IF Len(ds) < 6 THEN Len(ds) ELSE 6)

\* C14: the unstructured chunk list of retrieve is the base results as they
\* came when the question has no role keyword, and otherwise the first 6 of
\* the base results followed by the boost results with every later
\* occurrence of a content removed.
C14_UnstructuredReference ==
    (entry = "retrieve" /\ pc \in {"compose", "returned"}) =>
        unstructured_data =
            IF KeywordPresent(question)
            THEN FirstSix(FirstOccurrences(base_docs \o role_docs))
            ELSE base_docs

\* the case of C14: the boost search found a chunk the base search had not
\* found, and one it had
BoostAddedNewChunk ==
    /\ entry = "retrieve" /\ pc = "returned"
    /\ KeywordPresent(question)
    /\ Len(base_docs) >= 1
    /\ \E i \in 1..Len(role_docs) : role_docs[i] \notin Range(base_docs)
    /\ \E i \in 1..Len(role_docs) : role_docs[i] \in Range(base_docs)

(***************************************************************************)
(* The order of the calls and of the output of structured_retriever.       *)
(***************************************************************************)
\* the role-scanner searches
ScannerCalls ==
    SelectSeq(calls, LAMBDA c : c.fn = "similarity_search" /\ c.k = scan_k)

\* "\nRole-to-person context from documents:\n"
RoleContextHeader == <<"\n","R","o","l","e","-","t","o","-","p","e","r","s","o","n"," ","c","o","n","t","e","x","t"," ","f","r","o","m"," ","d","o","c","u","m","e","n","t","s",":","\n">>

\* the rows of one response as text: a newline between the rows and one
\* after the last
RECURSIVE RowsText(_, _)
RowsText(rows, i) ==
    \* "\n"
    IF i > Len(rows) THEN <<"\n">>
    \* "\n"
    ELSE rows[i] \o (IF i < Len(rows) THEN <<"\n">> ELSE << >>) \o RowsText(rows, i + 1)

\* the calls of structured_retriever so far: the extraction, then the
\* queries for a prefix of the extracted names, then the scanner searches,
\* which start only after the query for the last name
CallsInExtractionOrder ==
    (StructuredEntry /\ Len(calls) >= 1 /\ CollaboratorsOk) =>
        /\ calls[1] = Call("entity_chain.invoke", question, 0, "ok")
        /\ Len(GraphQueries) <= Len(entities)
        /\ \A i \in 1..Len(GraphQueries) :
               calls[1 + i] = Call("kg.query", FuzzyQueryFrom(entities[i], 1),
                                   full_text_limit, "ok")
        /\ \A i \in 1..Len(ScannerCalls) :
               calls[1 + Len(GraphQueries) + i] = ScannerCalls[i]
        /\ (ScannerCalls # << >> \/ StructuredReturned =>
                Len(GraphQueries) = Len(entities))

\* a query of the loop returned: its block of triples is put after the
\* blocks of the earlier names
BlockAppended ==
    (StructuredEntry /\ pc = "entities" /\ pc' = "entities" /\ calls' # calls) =>
        result' = result \o RowsText(kg_query(graph, node_hits'), 1)

\* structured_retriever returns: the role-context section comes last, and
\* only when the scanner found something
RoleContextLast ==
    (StructuredEntry /\ pc = "scan" /\ pc' \notin {"scan", "raised"}) =>
        result' = result \o (IF role_context = << >> THEN << >>
                             ELSE RoleContextHeader \o role_context)

\* C15: structured_retriever makes one extraction call, then one graph
\* query per extracted name in extraction order (a repeated name is queried
\* again), then the scanner searches; every triple block is put after the
\* blocks of the earlier names, and the role-context section with its
\* header comes after all of them, only when the scanner output is
\* non-empty.
C15_ExtractionOrder ==
    /\ []CallsInExtractionOrder
    /\ [][BlockAppended /\ RoleContextLast]_vars

\* the case of C15: two different names were queried, both queries matched
\* nodes, and structured_retriever returned
TwoNamesQueried ==
    /\ StructuredReturned /\ CollaboratorsOk
    /\ entities = <<AuroraDynamics, SolarOptima>>
    /\ node_hits # << >>
    /\ Len(Lines(StructuredOutput)) >= 4

\* the role-indicator tokens of the scanner, in the order of its list
RoleTokens ==
    \* "CEO" "CFO" "CTO" "CIO" "COO"
    <<<<"C","E","O">>, <<"C","F","O">>, <<"C","T","O">>, <<"C","I","O">>, <<"C","O","O">>,
      \* "Chief Executive Officer" "Chief Financial Officer"
      <<"C","h","i","e","f"," ","E","x","e","c","u","t","i","v","e"," ","O","f","f","i","c","e","r">>, <<"C","h","i","e","f"," ","F","i","n","a","n","c","i","a","l"," ","O","f","f","i","c","e","r">>,
      \* "Chief Technology Officer" "Chief Innovation Officer"
      <<"C","h","i","e","f"," ","T","e","c","h","n","o","l","o","g","y"," ","O","f","f","i","c","e","r">>, <<"C","h","i","e","f"," ","I","n","n","o","v","a","t","i","o","n"," ","O","f","f","i","c","e","r">>,
      \* "Chief Operating Officer" "President" "Director"
      <<"C","h","i","e","f"," ","O","p","e","r","a","t","i","n","g"," ","O","f","f","i","c","e","r">>, <<"P","r","e","s","i","d","e","n","t">>, <<"D","i","r","e","c","t","o","r">>,
      \* "Head of" "founder" "founded"
      <<"H","e","a","d"," ","o","f">>, <<"f","o","u","n","d","e","r">>, <<"f","o","u","n","d","e","d">>>>

\* positions of the tokens that occur in q, letter case ignored
OccurringTokens(q) ==
    LET lowered == lower(q)
    IN  {t \in 1..Len(RoleTokens) : contains(lower(RoleTokens[t]), lowered)}

\* the searches the scanner owes a question, in list order
ScannerSearchesFor(q) ==
    LET occurring == OccurringTokens(q)
        nth(n) == CHOOSE t \in occurring :
                      Cardinality({u \in occurring : u < t}) = n - 1
    IN  [n \in 1..Cardinality(occurring) |->
            \* " person name who"
            Call("similarity_search", RoleTokens[nth(n)] \o <<" ","p","e","r","s","o","n"," ","n","a","m","e"," ","w","h","o">>, 3, "ok")]

\* find_role_mentions_in_context has returned to its caller
ScannerReturned ==
    \/ entry = "find_role_mentions_in_context" /\ pc = "returned"
    \/ StructuredReturned

\* C18: find_role_mentions_in_context issues exactly one similarity search,
\* seeded with "<token> person name who" and k=3, for each role token that
\* occurs in the question as a case-insensitive substring, in list order,
\* and none for any other token; a question with none of the tokens causes
\* no scanner search and yields the empty string.
C18_OneSearchPerRoleToken ==
    (ScannerReturned /\ CollaboratorsOk) =>
        LET owed == ScannerSearchesFor(question)
        IN  /\ ScannerCalls = owed
            /\ (owed = << >> =>
                    /\ role_context = << >>
                    /\ (entry = "find_role_mentions_in_context" => ret = << << >> >>))

\* the case of C18: the scanner returned for a question with two tokens
\* written in another letter case than those of the list
TwoTokensScanned ==
    /\ entry = "find_role_mentions_in_context" /\ pc = "returned"
    /\ Cardinality(OccurringTokens(question)) = 2
    \* "founder"
    /\ ~contains(<<"f","o","u","n","d","e","r">>, question)
    /\ Len(ScannerCalls) = 2

(***************************************************************************)
(* The ceiling on the triples of a query and of a question.                *)
(***************************************************************************)
\* the positions at which the non-empty lines of a text start
LineStarts(s) == {i \in 1..Len(s) : s[i] # "\n" /\ (i = 1 \/ s[i - 1] = "\n")}

\* number of non-empty lines of a text
TripleCount(s) == Cardinality(LineStarts(s))

\* the line of s that starts at position a
LineAt(s, a) ==
    SubSeq(s, a, (CHOOSE e \in a..(Len(s) + 1) : e = Len(s) + 1 \/ s[e] = "\n") - 1)

\* a graph query of the loop of structured_retriever returned in this step
QueryReturned ==
    /\ StructuredEntry /\ pc = "entities" /\ pc' = "entities"
    /\ calls' # calls

\* what the query that returned in this step added to the result
QueryBlock == SubSeq(result', Len(result) + 1, Len(result'))

\* C16: each resolver call made for one entity returns at most 100 triple
\* lines, all of them relationships of one of the at most 3 nodes matched
\* by the full-text search; when the search matches no node the call yields
\* no line and no error.
C16_QueryBounded ==
    [][QueryReturned =>
          LET block == QueryBlock
              starts == LineStarts(block)
          IN  /\ Len(node_hits') <= 3
              /\ Cardinality(starts) <= 100
              /\ {LineAt(block, a) : a \in starts} \subseteq
                     {TripleLine(e) : e \in {f \in graph : f.src \in Range(node_hits')
                                                           \/ f.dst \in Range(node_hits')}}
              \* "\n"
              /\ (node_hits' = << >> => block = <<"\n">> /\ error' = "none")]_vars

\* the case of C16: the matched nodes have more than 100 relationships and
\* the query returned 100 of them
QueryCutAtCeiling ==
    /\ StructuredEntry /\ pc = "entities" /\ idx = 1
    /\ Cardinality({f \in graph : f.src \in Range(node_hits) \/ f.dst \in Range(node_hits)}) > 100
    /\ TripleCount(result) = 100

\* C17: the 100-triple ceiling bounds the merged structured evidence of one
\* question: however many names are extracted, structured_retriever's
\* output has at most 100 relationship triple lines.
C17_MergedTriplesBounded ==
    (StructuredReturned /\ role_context = << >>) => TripleCount(StructuredOutput) <= 100

(***************************************************************************)
(* The marker file and the set-up of the retrievers.                       *)
(***************************************************************************)
\* C19: after any sequence of build_graph_index runs, the marker file
\* .graph_index_built exists only if the graph store holds a completely
\* built graph index; hence whenever setup_graph_rag passes its marker
\* check, the graph it connects to has been fully built and not since
\* cleared.
C19_MarkerMeansBuiltGraph ==
    /\ (build_pc = "idle" /\ graph_index_marker) => kg_index = "complete"
    /\ graph_retriever # "unset" => graph_retriever = "complete"

\* C20: whenever setup_faiss_rag returns without raising, faiss_retriever
\* wraps a loaded (non-None) vector store: a failure to load the FAISS index
\* surfaces from setup_faiss_rag and is not deferred to the first query.
C20_SetupWrapsLoadedStore ==
    /\ faiss_retriever # "unset" => faiss_retriever = "store"
    /\ setup_error # "AttributeError"

====
